---------------------------- MODULE Spec2Model ----------------------------
(***************************************************************************)
(* Model of the qa-dashboard front end's real-time synchronisation core:   *)
(*   - the questions slice (Redux store: reducers and thunk lifecycles),   *)
(*   - the useWebSocket hook (connection manager and message router),      *)
(*   - the server as seen by the client (HTTP snapshots and broadcasts).   *)
(*                                                                         *)
(* A Question is modelled by the fields the reducers read or write:        *)
(* question_id, status, created_at and response_count.  The fields         *)
(* message, guest_name and username are opaque to every reducer and are    *)
(* left out.  created_at is a well-formed timestamp, written as the day    *)
(* of January 2024 it denotes ("2024-01-0dT00:00:00Z").                    *)
(***************************************************************************)
EXTENDS Integers, Sequences, FiniteSets, TLC

VARIABLES
    questions,          \* QuestionsState.questions
    selectedQuestion,   \* QuestionsState.selectedQuestion (NullQuestion or a Question)
    responses,          \* QuestionsState.responses
    loading,            \* QuestionsState.loading
    error,              \* QuestionsState.error (NULL or a message)
    lastOp,             \* history: the store action dispatched last
    \* useWebSocket and the browser's sockets and timers
    sockets,            \* the WebSocket objects: id -> readyState ("NONE": no such object)
    wsRef,              \* wsRef.current: 0 for null, else a socket id
    isConnecting,       \* isConnecting.current
    reconnectTimeoutRef,\* reconnectTimeoutRef.current: NoTimer, StaleTimer or a pending id
    timers,             \* the timeouts that are scheduled and have not fired
    effect,             \* the useEffect: "idle" before setup, "active", "cleaned"
    pendingClose,       \* the socket whose error event ran and whose close event is next
    apiIsHttp,          \* NEXT_PUBLIC_API_URL starts with http://
    pageIsHttps,        \* window.location.protocol === 'https:'
    ctorThrows,         \* new WebSocket(WS_URL) throws (an URL the browser rejects)
    lastConn,           \* history: the last hook step and what it did
    attempts,           \* history: new WebSocket(...) calls so far, counted up to MaxAttempts
    \* the server, the HTTP requests in flight, the push channel, the forum page
    srvQuestions,       \* the server's questions, in creation order
    srvResponses,       \* the server's responses, in creation order
    requests,           \* HTTP requests in flight: slot -> request record
    channel,            \* push messages broadcast and not yet delivered (FIFO)
    modalQuestion,      \* ForumPage's selectedQuestion (local state): the modal's question
    synced,             \* history: list fetched?, question whose responses were fetched last
    received,           \* history: the frames ws.onmessage has been called with
    isConnected,        \* the isConnected ForumPage got from useWebSocket at its last render
    \* the auth slice and the browser storage it mirrors
    auth,               \* AuthState: [user, token, loading, error]
    localStorage,       \* NoWindow on the server; else [token, username] (NULL: no item)
    \* ResponseModal.handleSubmit suspended at its await
    resumeSubmit,       \* 0, or the question id of a handleSubmit whose createResponse
                        \* was fulfilled and which has not yet run past its await
    \* ForumPage's filter and the QuestionCards it renders
    statusFilter,       \* ForumPage's statusFilter: "all" or a status
    isUpdating          \* request slot -> position, in the rendered list, of the card
                        \* whose isUpdating is true until this request settles (0: none)

storeVars == <<questions, selectedQuestion, responses, loading, error>>
connVars == <<sockets, wsRef, isConnecting, reconnectTimeoutRef, timers, effect,
              pendingClose, apiIsHttp, pageIsHttps, ctorThrows, lastConn, attempts>>
syncVars == <<srvQuestions, srvResponses, requests, channel, modalQuestion, synced,
              received, isConnected, auth, localStorage, resumeSubmit, statusFilter, isUpdating>>
\* syncVars without the isConnected of ForumPage's last render.
syncRest == <<srvQuestions, srvResponses, requests, channel, modalQuestion, synced,
              received, auth, localStorage, resumeSubmit, statusFilter, isUpdating>>
vars == <<questions, selectedQuestion, responses, loading, error, lastOp,
          sockets, wsRef, isConnecting, reconnectTimeoutRef, timers, effect,
          pendingClose, apiIsHttp, pageIsHttps, ctorThrows, lastConn, attempts,
          srvQuestions, srvResponses, requests, channel, modalQuestion, synced,
          received, isConnected, auth, localStorage, resumeSubmit, statusFilter, isUpdating>>

NULL == "null"                  \* a null string (error)
NullQuestion == [null |-> TRUE] \* a null Question (selectedQuestion)

---------------------------------------------------------------------------
(* Bounds of the model.                                                    *)

MaxQuestions == 2       \* addQuestion is not driven past this list length
MaxSortLen == 3         \* SpecSort: the longest list handed to fetchQuestions.fulfilled
MaxSockets == 3         \* WebSocket objects that exist at once (closed ones are collected)
MaxTimers == 2          \* timeouts pending at once
MaxRequests == 2        \* SpecSync: HTTP requests in flight at once
MaxChannel == 2         \* SpecSync: push messages in flight at once
MaxAttempts == 5        \* the history counter of connection attempts stops here

---------------------------------------------------------------------------
(* Data.                                                                   *)

QIds == {1, 2}                  \* question ids
RIds == {1}                     \* response ids
Days == {1, 2}                  \* creation timestamps
PayloadCounts == {0}            \* response_count carried by a pushed or fetched Question
Statuses == {"Escalated", "Pending", "Answered"}

QuestionPayloads ==
    [question_id : QIds, status : Statuses, created_at : Days,
     response_count : PayloadCounts]

ResponsePayloads == [response_id : RIds, question_id : QIds]

\* addResponse is not driven past as many responses as there are response ids.
MaxResponses == Cardinality(RIds)
MaxCount == Cardinality(RIds)

\* The message a rejected thunk carries: the server's detail or the default.
ServerDetail == "detail"

Range(s) == {s[i] : i \in DOMAIN s}

\* Lists a GET /api/questions can return: ids are unique on the server.
QuestionLists ==
    UNION {{s \in [1..n -> QuestionPayloads] :
               \A i, j \in 1..n : i # j => s[i].question_id # s[j].question_id}
           : n \in 0..Cardinality(QIds)}

\* Lists a GET /api/questions/{id}/responses can return: ids are unique and
\* every response belongs to the question asked for.
ResponseLists ==
    UNION {{s \in [1..n -> ResponsePayloads] :
               /\ \A i, j \in 1..n : i # j => s[i].response_id # s[j].response_id
               /\ \A i, j \in 1..n : s[i].question_id = s[j].question_id}
           : n \in 0..Cardinality(RIds)}

---------------------------------------------------------------------------
(* sortQuestions: Array.prototype.sort is stable, so the result is the     *)
(* stable sort of the input under the comparator.                          *)

statusPriority(status) ==
    CASE status = "Escalated" -> 0
      [] status = "Pending"   -> 1
      [] status = "Answered"  -> 2

\* new Date(created_at).getTime(), in days since the epoch.
DateGetTime(created_at) == 19722 + created_at

\* Mutant of compare: the timestamps are compared oldest first.
compare_OldestFirst(a, b) ==
    LET statusDiff == statusPriority(a.status) - statusPriority(b.status)
    IN  IF statusDiff # 0 THEN statusDiff
        ELSE DateGetTime(a.created_at) - DateGetTime(b.created_at)

compare(a, b) ==
    LET statusDiff == statusPriority(a.status) - statusPriority(b.status)
    IN  IF statusDiff # 0 THEN statusDiff
        ELSE DateGetTime(b.created_at) - DateGetTime(a.created_at)

\* x goes before the first element it is strictly less than: after its equals.
RECURSIVE InsertStable(_, _)
InsertStable(x, s) ==
    IF s = <<>> THEN <<x>>
    ELSE IF compare(x, Head(s)) < 0 THEN <<x>> \o s
    ELSE <<Head(s)>> \o InsertStable(x, Tail(s))

RECURSIVE SortFrom(_, _)
SortFrom(done, rest) ==
    IF rest = <<>> THEN done
    ELSE SortFrom(InsertStable(Head(rest), done), Tail(rest))

\* Mutant of sortQuestions: questions that tie come out in reverse order.
sortQuestions_ReverseTies(qs) ==
    SortFrom(<<>>, [i \in 1..Len(qs) |-> qs[Len(qs) + 1 - i]])

sortQuestions(qs) == SortFrom(<<>>, qs)

\* Array.prototype.findIndex: the first index whose element matches, 0 for -1.
findIndex(qs, id) ==
    IF \E i \in DOMAIN qs : qs[i].question_id = id
    THEN CHOOSE i \in DOMAIN qs :
            /\ qs[i].question_id = id
            /\ \A j \in DOMAIN qs : qs[j].question_id = id => i <= j
    ELSE 0

---------------------------------------------------------------------------
(* Reducers of questionsSlice: each constrains the five store fields.      *)

addQuestion(payload) ==
    /\ questions' = sortQuestions(<<payload>> \o questions)
    /\ UNCHANGED <<selectedQuestion, responses, loading, error>>

\* Mutant of updateQuestion: the replaced list is not sorted again.
updateQuestion_NoSort(payload) ==
    LET index == findIndex(questions, payload.question_id) IN
    /\ questions' = IF index # 0
                    THEN [questions EXCEPT ![index] = payload]
                    ELSE questions
    /\ selectedQuestion' =
          IF selectedQuestion # NullQuestion
             /\ selectedQuestion.question_id = payload.question_id
          THEN payload ELSE selectedQuestion
    /\ UNCHANGED <<responses, loading, error>>

\* Mutant of updateQuestion: the selection is never refreshed.
updateQuestion_KeepSelected(payload) ==
    LET index == findIndex(questions, payload.question_id) IN
    /\ questions' = IF index # 0
                    THEN sortQuestions([questions EXCEPT ![index] = payload])
                    ELSE questions
    /\ UNCHANGED <<selectedQuestion, responses, loading, error>>

\* Mutant of updateQuestion: a question the collection lacks is inserted.
updateQuestion_Insert(payload) ==
    LET index == findIndex(questions, payload.question_id) IN
    /\ questions' = IF index # 0
                    THEN sortQuestions([questions EXCEPT ![index] = payload])
                    ELSE sortQuestions(<<payload>> \o questions)
    /\ selectedQuestion' =
          IF selectedQuestion # NullQuestion
             /\ selectedQuestion.question_id = payload.question_id
          THEN payload ELSE selectedQuestion
    /\ UNCHANGED <<responses, loading, error>>

updateQuestion(payload) ==
    LET index == findIndex(questions, payload.question_id) IN
    /\ questions' = IF index # 0
                    THEN sortQuestions([questions EXCEPT ![index] = payload])
                    ELSE questions
    /\ selectedQuestion' =
          IF selectedQuestion # NullQuestion
             /\ selectedQuestion.question_id = payload.question_id
          THEN payload ELSE selectedQuestion
    /\ UNCHANGED <<responses, loading, error>>

\* Mutant of addResponse: the first question is bumped whatever its id.
addResponse_NoMatch(payload) ==
    LET index == IF questions # <<>> THEN 1 ELSE 0 IN
    /\ responses' = Append(responses, payload)
    /\ questions' = IF index # 0
                    THEN [questions EXCEPT
                            ![index].response_count = @ + 1]
                    ELSE questions
    /\ UNCHANGED <<selectedQuestion, loading, error>>

\* Mutant of addResponse: the questions are re-sorted after the count bump.
addResponse_Resort(payload) ==
    LET index == findIndex(questions, payload.question_id) IN
    /\ responses' = Append(responses, payload)
    /\ questions' = IF index # 0
                    THEN sortQuestions(<<[questions[index] EXCEPT
                                            !.response_count = @ + 1]>>
                            \o SubSeq(questions, 1, index - 1)
                            \o SubSeq(questions, index + 1, Len(questions)))
                    ELSE questions
    /\ UNCHANGED <<selectedQuestion, loading, error>>

addResponse(payload) ==
    LET index == findIndex(questions, payload.question_id) IN
    /\ responses' = Append(responses, payload)
    /\ questions' = IF index # 0
                    THEN [questions EXCEPT
                            ![index].response_count = @ + 1]
                    ELSE questions
    /\ UNCHANGED <<selectedQuestion, loading, error>>

setSelectedQuestion(payload) ==
    /\ selectedQuestion' = payload
    /\ UNCHANGED <<questions, responses, loading, error>>

clearError ==
    /\ error' = NULL
    /\ UNCHANGED <<questions, selectedQuestion, responses, loading>>

---------------------------------------------------------------------------
(* extraReducers of questionsSlice: the lifecycle of the five thunks.      *)

fetchQuestions_pending ==
    /\ loading' = TRUE
    /\ error' = NULL
    /\ UNCHANGED <<questions, selectedQuestion, responses>>

\* Mutant of fetchQuestions.fulfilled: the questions the payload lacks are kept.
fetchQuestions_fulfilled_Merge(payload) ==
    /\ loading' = FALSE
    /\ questions' = sortQuestions(payload \o
          SelectSeq(questions,
                    LAMBDA q : \A i \in DOMAIN payload :
                                   payload[i].question_id # q.question_id))
    /\ UNCHANGED <<selectedQuestion, responses, error>>

fetchQuestions_fulfilled(payload) ==
    /\ loading' = FALSE
    /\ questions' = sortQuestions(payload)
    /\ UNCHANGED <<selectedQuestion, responses, error>>

\* Mutant of fetchQuestions_rejected: a failed fetch empties the list.
fetchQuestions_rejected_ClearsList(payload) ==
    /\ loading' = FALSE
    /\ error' = payload
    /\ questions' = <<>>
    /\ UNCHANGED <<selectedQuestion, responses>>

fetchQuestions_rejected(payload) ==
    /\ loading' = FALSE
    /\ error' = payload
    /\ UNCHANGED <<questions, selectedQuestion, responses>>

createQuestion_pending ==
    /\ loading' = TRUE
    /\ error' = NULL
    /\ UNCHANGED <<questions, selectedQuestion, responses>>

\* Mutant of createQuestion.fulfilled: the created question is inserted.
createQuestion_fulfilled_Insert ==
    /\ loading' = FALSE
    /\ questions' = sortQuestions(
          <<[question_id |-> 1, status |-> "Pending", created_at |-> 1,
             response_count |-> 0]>> \o questions)
    /\ UNCHANGED <<selectedQuestion, responses, error>>

createQuestion_fulfilled ==
    /\ loading' = FALSE
    /\ UNCHANGED <<questions, selectedQuestion, responses, error>>

createQuestion_rejected(payload) ==
    /\ loading' = FALSE
    /\ error' = payload
    /\ UNCHANGED <<questions, selectedQuestion, responses>>

updateQuestionStatus_pending ==
    /\ loading' = TRUE
    /\ error' = NULL
    /\ UNCHANGED <<questions, selectedQuestion, responses>>

updateQuestionStatus_fulfilled ==
    /\ loading' = FALSE
    /\ UNCHANGED <<questions, selectedQuestion, responses, error>>

updateQuestionStatus_rejected(payload) ==
    /\ loading' = FALSE
    /\ error' = payload
    /\ UNCHANGED <<questions, selectedQuestion, responses>>

fetchResponses_pending ==
    /\ loading' = TRUE
    /\ error' = NULL
    /\ UNCHANGED <<questions, selectedQuestion, responses>>

\* Mutant of fetchResponses_fulfilled: the fetched responses are appended.
fetchResponses_fulfilled_Append(payload) ==
    /\ loading' = FALSE
    /\ responses' = responses \o payload
    /\ UNCHANGED <<questions, selectedQuestion, error>>

fetchResponses_fulfilled(payload) ==
    /\ loading' = FALSE
    /\ responses' = payload
    /\ UNCHANGED <<questions, selectedQuestion, error>>

fetchResponses_rejected(payload) ==
    /\ loading' = FALSE
    /\ error' = payload
    /\ UNCHANGED <<questions, selectedQuestion, responses>>

\* Mutant of createResponse.pending: the error is kept.
createResponse_pending_KeepError ==
    /\ loading' = TRUE
    /\ UNCHANGED <<questions, selectedQuestion, responses, error>>

createResponse_pending ==
    /\ loading' = TRUE
    /\ error' = NULL
    /\ UNCHANGED <<questions, selectedQuestion, responses>>

createResponse_fulfilled ==
    /\ loading' = FALSE
    /\ UNCHANGED <<questions, selectedQuestion, responses, error>>

createResponse_rejected(payload) ==
    /\ loading' = FALSE
    /\ error' = payload
    /\ UNCHANGED <<questions, selectedQuestion, responses>>

\* The five thunks, by their action type prefix.
Thunks == {"questions/fetch", "questions/create", "questions/updateStatus",
           "questions/fetchResponses", "questions/createResponse"}

\* The fixed default string of each thunk's rejectWithValue.
DefaultMessage(thunk) ==
    CASE thunk = "questions/fetch"          -> "Failed to fetch questions"
      [] thunk = "questions/create"         -> "Failed to create question"
      [] thunk = "questions/updateStatus"   -> "Failed to update question"
      [] thunk = "questions/fetchResponses" -> "Failed to fetch responses"
      [] thunk = "questions/createResponse" -> "Failed to create response"

\* Mutant of RejectValue: the server's detail is ignored.
RejectValue_AlwaysDefault(thunk, detail) == DefaultMessage(thunk)

\* error.response?.data?.detail || default: a missing detail is NULL here,
\* and an empty one is as falsy as a missing one.
RejectValue(thunk, detail) ==
    IF detail \notin {NULL, ""} THEN detail ELSE DefaultMessage(thunk)

pending(thunk) ==
    CASE thunk = "questions/fetch"          -> fetchQuestions_pending
      [] thunk = "questions/create"         -> createQuestion_pending
      [] thunk = "questions/updateStatus"   -> updateQuestionStatus_pending
      [] thunk = "questions/fetchResponses" -> fetchResponses_pending
      [] thunk = "questions/createResponse" -> createResponse_pending

rejected(thunk, payload) ==
    CASE thunk = "questions/fetch"          -> fetchQuestions_rejected(payload)
      [] thunk = "questions/create"         -> createQuestion_rejected(payload)
      [] thunk = "questions/updateStatus"   -> updateQuestionStatus_rejected(payload)
      [] thunk = "questions/fetchResponses" -> fetchResponses_rejected(payload)
      [] thunk = "questions/createResponse" -> createResponse_rejected(payload)

---------------------------------------------------------------------------
(* The initial store, and the history variable of the store actions.       *)

InitStore ==
    /\ questions = <<>>
    /\ selectedQuestion = NullQuestion
    /\ responses = <<>>
    /\ loading = FALSE
    /\ error = NULL

\* lastOp records the action type and, for the three push reducers, the payload.
NoPayload == [none |-> TRUE]
NoOp == [type |-> "@@INIT", payload |-> NoPayload]

---------------------------------------------------------------------------
(* useWebSocket: the connection manager.                                   *)
(*                                                                         *)
(* The browser side is the WebSocket interface: a socket is CONNECTING     *)
(* when constructed; it opens (open event) or fails; a failure sets        *)
(* readyState to CLOSED and fires error and then close in one task, so     *)
(* no other handler or timer runs between the two; an orderly close        *)
(* fires close alone; close() moves a CONNECTING or OPEN socket to         *)
(* CLOSING and its close event comes later.  A socket whose close event    *)
(* has been delivered fires nothing more and is dropped from the model     *)
(* (its id is reused).  Timer ids are reused likewise: a reference to a    *)
(* timeout that has fired or was cleared is kept as StaleTimer, which is   *)
(* truthy and clears nothing.                                              *)

SocketIds == 1..MaxSockets
TimerIds == 1..MaxTimers
NoTimer == 0        \* reconnectTimeoutRef.current is undefined
StaleTimer == -1    \* the id of a timeout that is no longer pending

Live(s) == sockets[s] \in {"CONNECTING", "OPEN"}

\* The ref after timeout t has fired or been cleared.
Expire(ref, t) == IF ref = t THEN StaleTimer ELSE ref

FreeSocket == CHOOSE s \in SocketIds :
                 /\ sockets[s] = "NONE"
                 /\ \A u \in SocketIds : sockets[u] = "NONE" => s <= u

FreeTimer(ts) == CHOOSE t \in TimerIds :
                         /\ t \notin ts
                         /\ \A u \in TimerIds : u \notin ts => t <= u

\* Mutant of connectOutcome: the HTTPS page / HTTP API check is missing.
connectOutcome_NoPolicy ==
    IF isConnecting \/ (wsRef # 0 /\ sockets[wsRef] = "OPEN") THEN "busy"
    ELSE IF ctorThrows THEN "threw"
    ELSE "created"

\* What a call of connect() does in the current state:
\*   "skip"    the HTTPS page / HTTP API check returns early,
\*   "busy"    the isConnecting / OPEN guard returns early,
\*   "threw"   new WebSocket threw and the catch block scheduled a retry,
\*   "created" a socket was constructed and stored in wsRef.
connectOutcome ==
    IF apiIsHttp /\ pageIsHttps THEN "skip"
    ELSE IF isConnecting \/ (wsRef # 0 /\ sockets[wsRef] = "OPEN") THEN "busy"
    ELSE IF ctorThrows THEN "threw"
    ELSE "created"

\* Mutant of connect: it gives up after two connection attempts.
connect_RetryLimit(op, ts, ref) ==
    LET outcome == IF attempts >= 2 THEN "busy" ELSE connectOutcome IN
    /\ outcome = "created" => \E s \in SocketIds : sockets[s] = "NONE"
    /\ outcome = "threw" => \E t \in TimerIds : t \notin ts
    /\ sockets' = IF outcome = "created"
                  THEN [sockets EXCEPT ![FreeSocket] = "CONNECTING"]
                  ELSE sockets
    /\ wsRef' = IF outcome = "created" THEN FreeSocket ELSE wsRef
    /\ isConnecting' = CASE outcome = "created" -> TRUE
                         [] outcome = "threw"   -> FALSE
                         [] OTHER               -> isConnecting
    /\ timers' = IF outcome = "threw"
                 THEN ts \cup {FreeTimer(ts)}
                 ELSE ts
    /\ reconnectTimeoutRef' = IF outcome = "threw"
                              THEN FreeTimer(ts)
                              ELSE ref
    /\ lastConn' = [op |-> op,
                    constructed |-> outcome \in {"created", "threw"},
                    scheduled |-> outcome = "threw"]
    /\ attempts' = IF outcome \in {"created", "threw"} /\ attempts < MaxAttempts
                   THEN attempts + 1 ELSE attempts

\* Mutant of connect: the catch block does not reset isConnecting.
connect_CatchKeepsFlag(op, ts, ref) ==
    LET outcome == connectOutcome IN
    /\ outcome = "created" => \E s \in SocketIds : sockets[s] = "NONE"
    /\ outcome = "threw" => \E t \in TimerIds : t \notin ts
    /\ sockets' = IF outcome = "created"
                  THEN [sockets EXCEPT ![FreeSocket] = "CONNECTING"]
                  ELSE sockets
    /\ wsRef' = IF outcome = "created" THEN FreeSocket ELSE wsRef
    /\ isConnecting' = CASE outcome = "created" -> TRUE
                         [] outcome = "threw"   -> TRUE
                         [] OTHER               -> isConnecting
    /\ timers' = IF outcome = "threw"
                 THEN ts \cup {FreeTimer(ts)}
                 ELSE ts
    /\ reconnectTimeoutRef' = IF outcome = "threw"
                              THEN FreeTimer(ts)
                              ELSE ref
    /\ lastConn' = [op |-> op,
                    constructed |-> outcome \in {"created", "threw"},
                    scheduled |-> outcome = "threw"]
    /\ attempts' = IF outcome \in {"created", "threw"} /\ attempts < MaxAttempts
                   THEN attempts + 1 ELSE attempts

\* connect(), called with the timeouts `ts` still scheduled and the
\* ref holding `ref`.  `op` names the caller in lastConn.
connect(op, ts, ref) ==
    LET outcome == connectOutcome IN
    /\ outcome = "created" => \E s \in SocketIds : sockets[s] = "NONE"
    /\ outcome = "threw" => \E t \in TimerIds : t \notin ts
    /\ sockets' = IF outcome = "created"
                  THEN [sockets EXCEPT ![FreeSocket] = "CONNECTING"]
                  ELSE sockets
    /\ wsRef' = IF outcome = "created" THEN FreeSocket ELSE wsRef
    /\ isConnecting' = CASE outcome = "created" -> TRUE
                         [] outcome = "threw"   -> FALSE
                         [] OTHER               -> isConnecting
    /\ timers' = IF outcome = "threw"
                 THEN ts \cup {FreeTimer(ts)}
                 ELSE ts
    /\ reconnectTimeoutRef' = IF outcome = "threw"
                              THEN FreeTimer(ts)
                              ELSE ref
    /\ lastConn' = [op |-> op,
                    constructed |-> outcome \in {"created", "threw"},
                    scheduled |-> outcome = "threw"]
    /\ attempts' = IF outcome \in {"created", "threw"} /\ attempts < MaxAttempts
                   THEN attempts + 1 ELSE attempts

\* The effect's setup: connect().  React runs it on mount and again after
\* each cleanup of a re-run effect (Strict Mode, Fast Refresh).
Setup ==
    /\ pendingClose = 0
    /\ effect # "active"
    /\ effect' = "active"
    /\ connect("setup", timers, reconnectTimeoutRef)
    /\ UNCHANGED <<pendingClose, apiIsHttp, pageIsHttps, ctorThrows>>

\* The effect's cleanup (stop): clear the referenced timeout, close and
\* forget the referenced socket.
Cleanup ==
    /\ pendingClose = 0
    /\ effect = "active"
    /\ effect' = "cleaned"
    /\ timers' = IF reconnectTimeoutRef # NoTimer
                 THEN timers \ {reconnectTimeoutRef} ELSE timers
    /\ reconnectTimeoutRef' =
          IF reconnectTimeoutRef \in timers THEN StaleTimer ELSE reconnectTimeoutRef
    /\ sockets' = IF wsRef # 0 /\ Live(wsRef)
                  THEN [sockets EXCEPT ![wsRef] = "CLOSING"]
                  ELSE sockets
    /\ wsRef' = 0
    /\ lastConn' = [op |-> "cleanup", constructed |-> FALSE, scheduled |-> FALSE]
    /\ UNCHANGED <<isConnecting, pendingClose, apiIsHttp, pageIsHttps, ctorThrows,
                   attempts>>

\* ws.onopen of socket s.
OnOpen(s) ==
    /\ pendingClose = 0
    /\ sockets[s] = "CONNECTING"
    /\ sockets' = [sockets EXCEPT ![s] = "OPEN"]
    /\ isConnecting' = FALSE
    /\ timers' = IF reconnectTimeoutRef # NoTimer
                 THEN timers \ {reconnectTimeoutRef} ELSE timers
    /\ reconnectTimeoutRef' =
          IF reconnectTimeoutRef \in timers THEN StaleTimer ELSE reconnectTimeoutRef
    /\ lastConn' = [op |-> "onopen", constructed |-> FALSE, scheduled |-> FALSE]
    /\ UNCHANGED <<wsRef, effect, pendingClose, apiIsHttp, pageIsHttps, ctorThrows,
                   attempts>>

\* ws.onerror of socket s: the connection failed; its close event is next.
OnError(s) ==
    /\ pendingClose = 0
    /\ sockets[s] \in {"CONNECTING", "OPEN", "CLOSING"}
    /\ sockets' = [sockets EXCEPT ![s] = "CLOSED"]
    /\ isConnecting' = FALSE
    /\ pendingClose' = s
    /\ lastConn' = [op |-> "onerror", constructed |-> FALSE, scheduled |-> FALSE]
    /\ UNCHANGED <<wsRef, reconnectTimeoutRef, timers, effect,
                   apiIsHttp, pageIsHttps, ctorThrows, attempts>>

\* ws.onclose of socket s: after its error event, or an orderly close of an
\* OPEN or CLOSING socket.
OnClose(s) ==
    /\ \/ pendingClose = s
       \/ pendingClose = 0 /\ sockets[s] \in {"OPEN", "CLOSING"}
    /\ \E t \in TimerIds : t \notin timers
    /\ sockets' = [sockets EXCEPT ![s] = "NONE"]
    /\ isConnecting' = FALSE
    /\ wsRef' = 0
    /\ timers' = timers \cup {FreeTimer(timers)}
    /\ reconnectTimeoutRef' = FreeTimer(timers)
    /\ pendingClose' = 0
    /\ lastConn' = [op |-> "onclose", constructed |-> FALSE, scheduled |-> TRUE]
    /\ UNCHANGED <<effect, apiIsHttp, pageIsHttps, ctorThrows, attempts>>

\* A reconnect timeout fires: connect().
TimerFire(t) ==
    /\ pendingClose = 0
    /\ t \in timers
    /\ connect("timer", timers \ {t}, Expire(reconnectTimeoutRef, t))
    /\ UNCHANGED <<effect, pendingClose, apiIsHttp, pageIsHttps, ctorThrows>>

\* The hook before its effect has run, in a given environment.
HookCreated ==
    /\ sockets = [s \in SocketIds |-> "NONE"]
    /\ wsRef = 0
    /\ isConnecting = FALSE
    /\ reconnectTimeoutRef = NoTimer
    /\ timers = {}
    /\ effect = "idle"
    /\ pendingClose = 0
    /\ lastConn = [op |-> "none", constructed |-> FALSE, scheduled |-> FALSE]
    /\ attempts = 0

---------------------------------------------------------------------------
(* authSlice: the login state and its copy in the browser's storage.       *)

Usernames == {"ann", "bob"}
Tokens == {"t1", "t2"}

\* typeof window === 'undefined': the module is evaluated on the server.
NoWindow == [window |-> FALSE]
\* A browser storage that holds neither item.
NoItems == [token |-> NULL, username |-> NULL]
\* What the storage can hold when the module is loaded: getItem gives null
\* for a missing item, else the stored string, which may be empty.
Storages ==
    {NoWindow} \cup [token : {NULL, ""} \cup Tokens, username : {NULL, ""} \cup Usernames]

\* The body of a 2xx answer of POST /api/login and /api/register.
AuthResponses == [access_token : Tokens, username : Usernames]

\* A null user (AuthState.user).
NullUser == [null |-> TRUE]

LoggedOut == [user |-> NullUser, token |-> NULL, loading |-> FALSE, error |-> NULL]

\* getInitialState(): the stored login if both items are there and truthy.
getInitialState(storage) ==
    IF /\ storage # NoWindow
       /\ storage.token \notin {NULL, ""}
       /\ storage.username \notin {NULL, ""}
    THEN [user |-> [username |-> storage.username], token |-> storage.token,
          loading |-> FALSE, error |-> NULL]
    ELSE LoggedOut

AuthThunks == {"auth/register", "auth/login"}

\* error.response?.data?.detail || default, of the two auth thunks.
AuthRejectValue(thunk, detail) ==
    IF detail \notin {NULL, ""} THEN detail
    ELSE IF thunk = "auth/register" THEN "Registration failed" ELSE "Login failed"

\* localStorage.setItem of both items / removeItem of both, in a browser.
StoreLogin(payload) ==
    IF localStorage = NoWindow THEN NoWindow
    ELSE [token |-> payload.access_token, username |-> payload.username]
RemoveLogin == IF localStorage = NoWindow THEN NoWindow ELSE NoItems

logout ==
    /\ auth' = [auth EXCEPT !.user = NullUser, !.token = NULL, !.error = NULL]
    /\ localStorage' = RemoveLogin

auth_clearError ==
    /\ auth' = [auth EXCEPT !.error = NULL]
    /\ UNCHANGED localStorage

register_pending ==
    /\ auth' = [auth EXCEPT !.loading = TRUE, !.error = NULL]
    /\ UNCHANGED localStorage

register_fulfilled(payload) ==
    /\ auth' = [auth EXCEPT !.loading = FALSE,
                            !.token = payload.access_token,
                            !.user = [username |-> payload.username]]
    /\ localStorage' = StoreLogin(payload)

register_rejected(payload) ==
    /\ auth' = [auth EXCEPT !.loading = FALSE, !.error = payload]
    /\ UNCHANGED localStorage

login_pending ==
    /\ auth' = [auth EXCEPT !.loading = TRUE, !.error = NULL]
    /\ UNCHANGED localStorage

\* Mutant of login_fulfilled: the token is stored, the user is not.
login_fulfilled_TokenOnly(payload) ==
    /\ auth' = [auth EXCEPT !.loading = FALSE,
                            !.token = payload.access_token]
    /\ localStorage' = StoreLogin(payload)

login_fulfilled(payload) ==
    /\ auth' = [auth EXCEPT !.loading = FALSE,
                            !.token = payload.access_token,
                            !.user = [username |-> payload.username]]
    /\ localStorage' = StoreLogin(payload)

login_rejected(payload) ==
    /\ auth' = [auth EXCEPT !.loading = FALSE, !.error = payload]
    /\ UNCHANGED localStorage

\* The page of a visitor who is not logged in: the storage holds no login.
Guest ==
    /\ localStorage = NoItems
    /\ auth = getInitialState(localStorage)

\* The server holds nothing, nothing is in flight, the modal is closed.
NoRequest == [thunk |-> "none", stage |-> "none", arg |-> 0, payload |-> <<>>]
SyncIdle ==
    /\ srvQuestions = <<>>
    /\ srvResponses = <<>>
    /\ requests = [r \in 1..MaxRequests |-> NoRequest]
    /\ channel = <<>>
    /\ modalQuestion = NullQuestion
    /\ synced = [list |-> FALSE, responsesOf |-> 0]
    /\ received = <<>>
    /\ isConnected = FALSE
    /\ resumeSubmit = 0
    /\ statusFilter = "all"
    /\ isUpdating = [r \in 1..MaxRequests |-> 0]

\* The default environment: an http API reached from an http page.
DefaultEnv ==
    /\ apiIsHttp = TRUE
    /\ pageIsHttps = FALSE
    /\ ctorThrows = FALSE

InitConn ==
    /\ InitStore
    /\ lastOp = NoOp
    /\ HookCreated
    /\ SyncIdle
    /\ Guest
    /\ apiIsHttp \in BOOLEAN
    /\ pageIsHttps \in BOOLEAN
    /\ ctorThrows \in BOOLEAN

ConnSetup == Setup /\ UNCHANGED <<storeVars, lastOp, syncVars>>
ConnCleanup == Cleanup /\ UNCHANGED <<storeVars, lastOp, syncVars>>
ConnOpen == \E s \in SocketIds : OnOpen(s) /\ UNCHANGED <<storeVars, lastOp, syncVars>>
ConnError == \E s \in SocketIds : OnError(s) /\ UNCHANGED <<storeVars, lastOp, syncVars>>
ConnClose == \E s \in SocketIds : OnClose(s) /\ UNCHANGED <<storeVars, lastOp, syncVars>>
ConnTimer == \E t \in TimerIds : TimerFire(t) /\ UNCHANGED <<storeVars, lastOp, syncVars>>

NextConn ==
    \/ ConnSetup
    \/ ConnCleanup
    \/ ConnOpen
    \/ ConnError
    \/ ConnClose
    \/ ConnTimer

SpecConn == InitConn /\ [][NextConn]_vars

---------------------------------------------------------------------------
(* SpecReconnect: the hook mounted once against a channel that never       *)
(* stays up: a connection opens and is closed right away, or fails (error  *)
(* then close) before or after it opened.  The browser delivers the        *)
(* events of a socket and fires a scheduled timeout, so the open, close    *)
(* and timer steps are weakly fair; setup runs on mount.  Cleanup          *)
(* (unmount) may happen at any time or never.  The environment is any of   *)
(* InitConn's: where the policy check skips the connection or the          *)
(* constructor throws, no socket ever exists.                              *)

\* ForumPage renders (a store or local-state change caused it): it calls
\* useWebSocket() again, which returns isConnected computed from the ref at
\* that moment.  The hook's handlers change refs only and cause no render.
ViewRender ==
    /\ isConnected' = (wsRef # 0 /\ sockets[wsRef] = "OPEN")
    /\ UNCHANGED <<storeVars, lastOp, connVars, srvQuestions, srvResponses,
                   requests, channel, modalQuestion, synced, received, auth,
                   localStorage, resumeSubmit, statusFilter, isUpdating>>

\* The hook as ForumPage uses it: the connection events and the renders.
InitView == InitConn
ViewSetup == Setup /\ UNCHANGED <<storeVars, lastOp, syncVars>>
ViewCleanup == Cleanup /\ UNCHANGED <<storeVars, lastOp, syncVars>>
ViewOpen == \E s \in SocketIds : OnOpen(s) /\ UNCHANGED <<storeVars, lastOp, syncVars>>
ViewError == \E s \in SocketIds : OnError(s) /\ UNCHANGED <<storeVars, lastOp, syncVars>>
ViewClose == \E s \in SocketIds : OnClose(s) /\ UNCHANGED <<storeVars, lastOp, syncVars>>
ViewTimer == \E t \in TimerIds : TimerFire(t) /\ UNCHANGED <<storeVars, lastOp, syncVars>>

NextView ==
    \/ ViewSetup
    \/ ViewCleanup
    \/ ViewOpen
    \/ ViewError
    \/ ViewClose
    \/ ViewTimer
    \/ ViewRender

SpecView == InitView /\ [][NextView]_vars

InitReconnect == InitConn

RecSetup == effect = "idle" /\ Setup /\ UNCHANGED <<storeVars, lastOp, syncVars>>
RecCleanup == Cleanup /\ UNCHANGED <<storeVars, lastOp, syncVars>>
RecOpen == \E s \in SocketIds : OnOpen(s) /\ UNCHANGED <<storeVars, lastOp, syncVars>>
RecError == \E s \in SocketIds : OnError(s) /\ UNCHANGED <<storeVars, lastOp, syncVars>>
RecClose == \E s \in SocketIds : OnClose(s) /\ UNCHANGED <<storeVars, lastOp, syncVars>>
RecTimer == \E t \in TimerIds : TimerFire(t) /\ UNCHANGED <<storeVars, lastOp, syncVars>>

NextReconnect ==
    \/ RecSetup
    \/ RecCleanup
    \/ RecOpen
    \/ RecError
    \/ RecClose
    \/ RecTimer

SpecReconnect ==
    /\ InitReconnect
    /\ [][NextReconnect]_vars
    /\ WF_vars(RecSetup)
    /\ WF_vars(RecOpen)
    /\ WF_vars(RecClose)
    /\ WF_vars(RecTimer)

---------------------------------------------------------------------------
(* Spec: the store driven by every sequence of the store actions the       *)
(* application dispatches, with payloads drawn from the bounded sets       *)
(* above.  No component dispatches setSelectedQuestion (the forum page     *)
(* keeps its selection in local state), so selectedQuestion stays null.    *)


\* lastOp records the action type and, for the three push reducers, the payload.


Init ==
    /\ InitStore
    /\ lastOp = NoOp
    /\ HookCreated
    /\ DefaultEnv
    /\ SyncIdle
    /\ Guest

DoAddQuestion ==
    \E payload \in QuestionPayloads :
        /\ Len(questions) < MaxQuestions
        /\ addQuestion(payload)
        /\ lastOp' = [type |-> "questions/addQuestion", payload |-> payload]
        /\ UNCHANGED <<connVars, syncVars>>

DoUpdateQuestion ==
    \E payload \in QuestionPayloads :
        /\ updateQuestion(payload)
        /\ lastOp' = [type |-> "questions/updateQuestion", payload |-> payload]
        /\ UNCHANGED <<connVars, syncVars>>

DoAddResponse ==
    \E payload \in ResponsePayloads :
        /\ Len(responses) < MaxResponses
        /\ LET index == findIndex(questions, payload.question_id)
           IN  index # 0 => questions[index].response_count < MaxCount
        /\ addResponse(payload)
        /\ lastOp' = [type |-> "questions/addResponse", payload |-> payload]
        /\ UNCHANGED <<connVars, syncVars>>

DoClearError ==
    /\ clearError
    /\ lastOp' = [type |-> "questions/clearError", payload |-> NoPayload]
    /\ UNCHANGED <<connVars, syncVars>>

DoPending ==
    \E thunk \in Thunks :
        /\ pending(thunk)
        /\ lastOp' = [type |-> "pending", payload |-> NoPayload]
        /\ UNCHANGED <<connVars, syncVars>>

DoRejected ==
    \E thunk \in Thunks :
        /\ rejected(thunk, RejectValue(thunk, ServerDetail))
        /\ lastOp' = [type |-> "rejected", payload |-> NoPayload]
        /\ UNCHANGED <<connVars, syncVars>>

DoFetchQuestionsFulfilled ==
    \E payload \in QuestionLists :
        /\ fetchQuestions_fulfilled(payload)
        /\ lastOp' = [type |-> "questions/fetch/fulfilled", payload |-> NoPayload]
        /\ UNCHANGED <<connVars, syncVars>>

DoFetchResponsesFulfilled ==
    \E payload \in ResponseLists :
        /\ fetchResponses_fulfilled(payload)
        /\ lastOp' = [type |-> "questions/fetchResponses/fulfilled", payload |-> NoPayload]
        /\ UNCHANGED <<connVars, syncVars>>

DoCreateQuestionFulfilled ==
    /\ createQuestion_fulfilled
    /\ lastOp' = [type |-> "questions/create/fulfilled", payload |-> NoPayload]
    /\ UNCHANGED <<connVars, syncVars>>

DoUpdateQuestionStatusFulfilled ==
    /\ updateQuestionStatus_fulfilled
    /\ lastOp' = [type |-> "questions/updateStatus/fulfilled", payload |-> NoPayload]
    /\ UNCHANGED <<connVars, syncVars>>

DoCreateResponseFulfilled ==
    /\ createResponse_fulfilled
    /\ lastOp' = [type |-> "questions/createResponse/fulfilled", payload |-> NoPayload]
    /\ UNCHANGED <<connVars, syncVars>>

Next ==
    \/ DoAddQuestion
    \/ DoUpdateQuestion
    \/ DoAddResponse
    \/ DoClearError
    \/ DoPending
    \/ DoRejected
    \/ DoFetchQuestionsFulfilled
    \/ DoFetchResponsesFulfilled
    \/ DoCreateQuestionFulfilled
    \/ DoUpdateQuestionStatusFulfilled
    \/ DoCreateResponseFulfilled

Spec == Init /\ [][Next]_vars

---------------------------------------------------------------------------
(* SpecSort: fetchQuestions.fulfilled as a function of its payload.  The   *)
(* payload is any list of up to MaxSortLen questions (ids may repeat       *)
(* here: the sort must not depend on them); lastOp records it.  One        *)
(* fetch is dispatched and answered.                                       *)

SortLists == UNION {[1..n -> QuestionPayloads] : n \in 0..MaxSortLen}

InitSort ==
    /\ InitStore
    /\ lastOp = NoOp
    /\ HookCreated
    /\ DefaultEnv
    /\ SyncIdle
    /\ Guest

SortPending ==
    /\ lastOp.type = "@@INIT"
    /\ fetchQuestions_pending
    /\ lastOp' = [type |-> "questions/fetch/pending", payload |-> <<>>]
    /\ UNCHANGED <<connVars, syncVars>>

SortFulfilled ==
    \E payload \in SortLists :
        /\ lastOp.type = "questions/fetch/pending"
        /\ fetchQuestions_fulfilled(payload)
        /\ lastOp' = [type |-> "questions/fetch/fulfilled", payload |-> payload]
        /\ UNCHANGED <<connVars, syncVars>>

NextSort == SortPending \/ SortFulfilled

SpecSort == InitSort /\ [][NextSort]_vars

---------------------------------------------------------------------------
(* SpecSelect: the slice as a caller of its exported actions drives it,    *)
(* setSelectedQuestion included.  A question of the list is selected (or   *)
(* the selection is cleared); pushes add and update questions; a fetched   *)
(* list replaces the collection, so the selected question can be one the   *)
(* collection no longer holds.  lastOp also records what the step found:   *)
(* the selection before it and whether the collection held the id.         *)

SelectPayloads ==
    [question_id : QIds, status : {"Pending", "Answered"}, created_at : {1},
     response_count : PayloadCounts]

\* Lists a GET /api/questions can return here: no question, or one.
SelectLists == {<<>>} \cup {<<q>> : q \in SelectPayloads}

SelectOp(type, payload) ==
    [type |-> type, payload |-> payload, before |-> selectedQuestion,
     absent |-> \A i \in DOMAIN questions :
                    questions[i].question_id # payload.question_id]

InitSelect ==
    /\ InitStore
    /\ lastOp = NoOp
    /\ HookCreated
    /\ DefaultEnv
    /\ SyncIdle
    /\ Guest

SelAddQuestion ==
    \E payload \in SelectPayloads :
        /\ Len(questions) < MaxQuestions
        /\ addQuestion(payload)
        /\ lastOp' = SelectOp("questions/addQuestion", payload)
        /\ UNCHANGED <<connVars, syncVars>>

SelUpdateQuestion ==
    \E payload \in SelectPayloads :
        /\ updateQuestion(payload)
        /\ lastOp' = SelectOp("questions/updateQuestion", payload)
        /\ UNCHANGED <<connVars, syncVars>>

SelSetSelectedQuestion ==
    \E payload \in Range(questions) \cup {NullQuestion} :
        /\ setSelectedQuestion(payload)
        /\ lastOp' = [type |-> "questions/setSelectedQuestion", payload |-> payload]
        /\ UNCHANGED <<connVars, syncVars>>

SelFetchQuestionsFulfilled ==
    \E payload \in SelectLists :
        /\ fetchQuestions_fulfilled(payload)
        /\ lastOp' = [type |-> "questions/fetch/fulfilled", payload |-> NoPayload]
        /\ UNCHANGED <<connVars, syncVars>>

NextSelect ==
    \/ SelAddQuestion
    \/ SelUpdateQuestion
    \/ SelSetSelectedQuestion
    \/ SelFetchQuestionsFulfilled

SpecSelect == InitSelect /\ [][NextSelect]_vars

---------------------------------------------------------------------------
(* SpecSync: the store between the action layer and the push channel.      *)
(*                                                                         *)
(* The forum page dispatches thunks (fetchQuestions on mount, the          *)
(* question form's createQuestion, the modal's fetchResponses and          *)
(* createResponse); each thunk is an HTTP request the server handles at    *)
(* some moment and whose reply the client applies at a later one.  The     *)
(* server broadcasts a push message for every creation; the socket is      *)
(* open and delivers the messages in order to ws.onmessage.  The server    *)
(* is not part of the sources: it follows the specification (unique        *)
(* server-assigned ids, server-derived response_count, one broadcast per   *)
(* creation).                                                              *)

Request(thunk, stage, arg, payload) ==
    [thunk |-> thunk, stage |-> stage, arg |-> arg, payload |-> payload]

\* The first free request slot, 0 when MaxRequests requests are in flight.
FreeRequest ==
    IF \E r \in 1..MaxRequests : requests[r] = NoRequest
    THEN CHOOSE r \in 1..MaxRequests :
             /\ requests[r] = NoRequest
             /\ \A o \in 1..MaxRequests : requests[o] = NoRequest => r <= o
    ELSE 0

\* The server's count of the responses of a question.
ServerCount(qid, rs) ==
    Cardinality({i \in DOMAIN rs : rs[i].question_id = qid})

\* GET /api/questions: every question with its derived response_count.
ServerQuestionList ==
    [i \in DOMAIN srvQuestions |->
        [question_id    |-> srvQuestions[i].question_id,
         status         |-> srvQuestions[i].status,
         created_at     |-> srvQuestions[i].created_at,
         response_count |-> ServerCount(srvQuestions[i].question_id, srvResponses)]]

\* GET /api/questions/{id}/responses.
ServerResponseList(qid) ==
    SelectSeq(srvResponses, LAMBDA r : r.question_id = qid)

\* Mutant of onmessage: an unknown type is reported in the store's error.
onmessage_UnknownToError(message) ==
    CASE message.type = "new_question"     -> addQuestion(message.data)
      [] message.type = "question_updated" -> updateQuestion(message.data)
      [] message.type = "new_response"     -> addResponse(message.data)
      [] OTHER -> /\ error' = "Unknown message type"
                  /\ UNCHANGED <<questions, selectedQuestion, responses, loading>>

\* Mutant of onmessage: a pushed response the store already holds is merged
\* into the one held instead of being applied.
onmessage_Coalesce(message) ==
    CASE message.type = "new_question"     -> addQuestion(message.data)
      [] message.type = "question_updated" -> updateQuestion(message.data)
      [] message.type = "new_response"     ->
            IF message.data \in Range(responses)
            THEN UNCHANGED storeVars
            ELSE addResponse(message.data)
      [] OTHER -> UNCHANGED storeVars

\* Mutant of onmessage: question_updated is routed to addQuestion.
onmessage_UpdateAsNew(message) ==
    CASE message.type = "new_question"     -> addQuestion(message.data)
      [] message.type = "question_updated" -> addQuestion(message.data)
      [] message.type = "new_response"     -> addResponse(message.data)
      [] OTHER -> UNCHANGED storeVars

\* ws.onmessage: the router.  A message is [type, data].
onmessage(message) ==
    CASE message.type = "new_question"     -> addQuestion(message.data)
      [] message.type = "question_updated" -> updateQuestion(message.data)
      [] message.type = "new_response"     -> addResponse(message.data)
      [] OTHER -> UNCHANGED storeVars

\* The page with its socket open: the hook after its effect and onopen.
HookOpen ==
    /\ sockets = [s \in SocketIds |-> IF s = 1 THEN "OPEN" ELSE "NONE"]
    /\ wsRef = 1
    /\ isConnecting = FALSE
    /\ reconnectTimeoutRef = NoTimer
    /\ timers = {}
    /\ effect = "active"
    /\ pendingClose = 0
    /\ lastConn = [op |-> "onopen", constructed |-> FALSE, scheduled |-> FALSE]
    /\ attempts = 1

\* The store, the requests and the page after ForumPage's mount and the
\* socket's open event.  The mount runs the hook's effect (connect(): the
\* socket is CONNECTING) and then the page's effect, which dispatches
\* fetchQuestions(): loading is true and the request is in flight.  The
\* render that the pending action causes sees the socket CONNECTING, and
\* onopen changes refs only and renders nothing: isConnected is false
\* although the socket is OPEN.  The server holds nothing yet.
PageMounted ==
    /\ questions = <<>>
    /\ selectedQuestion = NullQuestion
    /\ responses = <<>>
    /\ loading = TRUE
    /\ error = NULL
    /\ lastOp = [type |-> "questions/fetch/pending", payload |-> NoPayload]
    /\ srvQuestions = <<>>
    /\ srvResponses = <<>>
    /\ requests = [r \in 1..MaxRequests |->
                     IF r = 1 THEN Request("questions/fetch", "sent", 0, <<>>)
                     ELSE NoRequest]
    /\ channel = <<>>
    /\ modalQuestion = NullQuestion
    /\ synced = [list |-> FALSE, responsesOf |-> 0]
    /\ received = <<>>
    /\ isConnected = FALSE
    /\ resumeSubmit = 0
    /\ statusFilter = "all"
    /\ isUpdating = [r \in 1..MaxRequests |-> 0]

\* The page as a guest opens it.  A guest sees no status buttons, and
\* handleStatusChange returns at once without a token.
InitSync ==
    /\ PageMounted
    /\ HookOpen
    /\ DefaultEnv
    /\ Guest

\* Whether the reducer that handles the message assigns to the slice: the
\* producer then returns a new slice object, whatever the values are.
\* addQuestion and addResponse always assign; updateQuestion assigns if it
\* finds the question in the list or in selectedQuestion; a message of
\* another type is logged and dispatches nothing.
onmessageAssigns(message) ==
    CASE message.type = "new_question"     -> TRUE
      [] message.type = "question_updated" ->
            \/ findIndex(questions, message.data.question_id) # 0
            \/ /\ selectedQuestion # NullQuestion
               /\ selectedQuestion.question_id = message.data.question_id
      [] message.type = "new_response"     -> TRUE
      [] OTHER -> FALSE

\* The render that ends a handler of the page.  ForumPage selects the
\* questions slice and holds the modal's question and the filter in its
\* own state: it renders again if the handler set that local state or the
\* reducer assigned an array or object to the slice (assigned), or if a
\* field of the slice has another value; a reducer that writes the values
\* the fields already have returns the same slice and nothing renders.
\* A render calls useWebSocket() again, which returns isConnected computed
\* from the ref at that moment.  The handlers folded with it leave the
\* hook's refs alone.
Render(assigned) ==
    isConnected' = IF assigned \/ storeVars' # storeVars
                   THEN wsRef # 0 /\ sockets[wsRef] = "OPEN"
                   ELSE isConnected

\* filteredQuestions: the questions ForumPage renders a QuestionCard for.
filteredQuestions(qs, filter) ==
    IF filter = "all" THEN qs
    ELSE SelectSeq(qs, LAMBDA q : q.status = filter)

\* The keys of the rendered cards, in order: key={question.question_id}.
CardKeys(qs, filter) ==
    [i \in DOMAIN filteredQuestions(qs, filter) |->
        filteredQuestions(qs, filter)[i].question_id]

\* React matches the cards of the last render with the keys of the new one:
\* position by position while the keys agree; from the first difference
\* on by key, where of several old cards with one key the last is kept and
\* goes to the first new position with that key.  A card that is matched
\* keeps its state; every other old card is unmounted, every other new
\* position gets a new card.  The result is the new position of old card
\* i, 0 if it is unmounted.
CommonPrefix(old, new) ==
    CHOOSE p \in 0..Len(old) :
        /\ p <= Len(new)
        /\ \A i \in 1..p : old[i] = new[i]
        /\ p = Len(old) \/ p = Len(new) \/ old[p + 1] # new[p + 1]
CardAfterRender(old, new, i) ==
    LET p == CommonPrefix(old, new)
        js == {j \in (p + 1)..Len(new) : new[j] = old[i]}
    IN  IF i <= p THEN i
        ELSE IF \E k \in (i + 1)..Len(old) : old[k] = old[i] THEN 0
        ELSE IF js = {} THEN 0
        ELSE CHOOSE j \in js : \A o \in js : j <= o

\* isUpdating after the page has rendered the list qs under the filter f.
Rerender(qs, f) ==
    [r \in 1..MaxRequests |->
        IF isUpdating[r] = 0 THEN 0
        ELSE CardAfterRender(CardKeys(questions, statusFilter), CardKeys(qs, f),
                             isUpdating[r])]

\* No handleSubmit is between its createResponse.fulfilled and the code
\* after its await: that code runs as a microtask, before the browser runs
\* another handler of the page.
NoContinuation == resumeSubmit = 0

\* Dispatch of a thunk: its pending reducer runs and the request leaves.
Dispatch(thunk, arg) ==
    /\ FreeRequest # 0
    /\ pending(thunk)
    /\ requests' = [requests EXCEPT ![FreeRequest] = Request(thunk, "sent", arg, <<>>)]
    /\ lastOp' = [type |-> thunk \o "/pending", payload |-> NoPayload]

\* ForumPage's mount effect: dispatch(fetchQuestions()).  Its first run is
\* part of PageMounted; a further run overlaps the requests in flight.
SyncFetchQuestions ==
    /\ NoContinuation
    /\ Dispatch("questions/fetch", 0)
    /\ Render(FALSE)
    /\ UNCHANGED <<srvQuestions, srvResponses, channel, modalQuestion, synced, received, auth, localStorage, resumeSubmit, statusFilter, isUpdating, connVars>>

\* QuestionForm's handleSubmit: dispatch(createQuestion(...)).  The submit
\* button is disabled while loading.
SyncCreateQuestion ==
    /\ NoContinuation
    /\ ~loading
    /\ Dispatch("questions/create", 0)
    /\ Render(FALSE)
    /\ UNCHANGED <<srvQuestions, srvResponses, channel, modalQuestion, synced, received, auth, localStorage, resumeSubmit, statusFilter, isUpdating, connVars>>

\* handleViewResponses(question), from a rendered card: the modal opens on
\* the card's question and its effect dispatches
\* fetchResponses(question.question_id).
SyncViewResponses ==
    \E i \in DOMAIN filteredQuestions(questions, statusFilter) :
        /\ NoContinuation
        /\ modalQuestion = NullQuestion
        /\ modalQuestion' = filteredQuestions(questions, statusFilter)[i]
        /\ Dispatch("questions/fetchResponses",
                    filteredQuestions(questions, statusFilter)[i].question_id)
        /\ Render(TRUE)
        /\ UNCHANGED <<srvQuestions, srvResponses, channel, synced, received, auth, localStorage, resumeSubmit, statusFilter, isUpdating, connVars>>

\* handleCloseModal.
SyncCloseModal ==
    /\ NoContinuation
    /\ modalQuestion # NullQuestion
    /\ modalQuestion' = NullQuestion
    /\ Render(TRUE)
    /\ UNCHANGED <<storeVars, lastOp, srvQuestions, srvResponses, requests, channel,
                   synced, received, auth, localStorage, resumeSubmit, statusFilter, isUpdating, connVars>>

\* The modal's handleSubmit: dispatch(createResponse({questionId, ...})).
\* The submit button is disabled while loading.
SyncCreateResponse ==
    /\ NoContinuation
    /\ ~loading
    /\ modalQuestion # NullQuestion
    /\ Dispatch("questions/createResponse", modalQuestion.question_id)
    /\ Render(FALSE)
    /\ UNCHANGED <<srvQuestions, srvResponses, channel, modalQuestion, synced, received, auth, localStorage, resumeSubmit, statusFilter, isUpdating, connVars>>

\* A status button of a rendered QuestionCard, shown to a logged-in user
\* for each status the card's question does not have and disabled while
\* the card's isUpdating is true: the card sets isUpdating and calls
\* handleStatusChange, which returns without a token, else dispatches
\* updateQuestionStatus({id, status, token}).  The card's isUpdating is
\* true until that request settles.
SyncStatusChange ==
    \E i \in DOMAIN filteredQuestions(questions, statusFilter), status \in Statuses :
        LET question == filteredQuestions(questions, statusFilter)[i] IN
        /\ NoContinuation
        /\ auth.user # NullUser
        /\ auth.token # NULL
        /\ status # question.status
        /\ \A r \in 1..MaxRequests : isUpdating[r] # i
        /\ FreeRequest # 0
        /\ pending("questions/updateStatus")
        /\ requests' = [requests EXCEPT ![FreeRequest] =
              Request("questions/updateStatus", "sent", question.question_id, <<status>>)]
        /\ isUpdating' = [isUpdating EXCEPT ![FreeRequest] = i]
        /\ lastOp' = [type |-> "questions/updateStatus/pending", payload |-> NoPayload]
        /\ Render(FALSE)
        /\ UNCHANGED <<srvQuestions, srvResponses, channel, modalQuestion, synced, received,
                       auth, localStorage, resumeSubmit, statusFilter, connVars>>

\* A filter tab: setStatusFilter(filter).
SyncSetStatusFilter ==
    \E filter \in {"all"} \cup Statuses :
        /\ NoContinuation
        /\ filter # statusFilter
        /\ statusFilter' = filter
        /\ isUpdating' = Rerender(questions, filter)
        /\ Render(TRUE)
        /\ UNCHANGED <<storeVars, lastOp, srvQuestions, srvResponses, requests, channel,
                       modalQuestion, synced, received, auth, localStorage,
                       resumeSubmit, connVars>>

\* The server stores a new question and broadcasts it.
ServerInsertQuestion ==
    LET id == Len(srvQuestions) + 1
        q  == [question_id |-> id, status |-> "Pending", created_at |-> id]
    IN  /\ id \in QIds
        /\ Len(channel) < MaxChannel
        /\ srvQuestions' = Append(srvQuestions, q)
        /\ channel' = Append(channel,
              [type |-> "new_question",
               data |-> [question_id |-> id, status |-> "Pending",
                         created_at |-> id, response_count |-> 0]])
        /\ UNCHANGED srvResponses

\* The server stores a new response to question qid and broadcasts it.
ServerInsertResponse(qid) ==
    LET id == Len(srvResponses) + 1
        r  == [response_id |-> id, question_id |-> qid]
    IN  /\ id \in RIds
        /\ \E i \in DOMAIN srvQuestions : srvQuestions[i].question_id = qid
        /\ Len(channel) < MaxChannel
        /\ srvResponses' = Append(srvResponses, r)
        /\ channel' = Append(channel, [type |-> "new_response", data |-> r])
        /\ UNCHANGED srvQuestions

\* The server sets the status of question qid and broadcasts the question.
ServerUpdateStatus(qid, status) ==
    /\ \E i \in DOMAIN srvQuestions : srvQuestions[i].question_id = qid
    /\ Len(channel) < MaxChannel
    /\ srvQuestions' = [i \in DOMAIN srvQuestions |->
          IF srvQuestions[i].question_id = qid
          THEN [srvQuestions[i] EXCEPT !.status = status]
          ELSE srvQuestions[i]]
    /\ channel' = Append(channel,
          [type |-> "question_updated",
           data |-> LET q == CHOOSE x \in Range(srvQuestions) : x.question_id = qid
                    IN  [question_id |-> qid, status |-> status,
                         created_at |-> q.created_at,
                         response_count |-> ServerCount(qid, srvResponses)]])
    /\ UNCHANGED srvResponses

\* The server handles request r: a GET reads the state of this moment, a
\* POST changes it; the reply travels back.
ServerHandle(r) ==
    LET req == requests[r] IN
    /\ req.thunk # "none"
    /\ req.stage = "sent"
    /\ CASE req.thunk = "questions/fetch" ->
              /\ requests' = [requests EXCEPT ![r] =
                    Request(req.thunk, "replied", req.arg, ServerQuestionList)]
              /\ UNCHANGED <<srvQuestions, srvResponses, channel>>
         [] req.thunk = "questions/fetchResponses" ->
              /\ requests' = [requests EXCEPT ![r] =
                    Request(req.thunk, "replied", req.arg, ServerResponseList(req.arg))]
              /\ UNCHANGED <<srvQuestions, srvResponses, channel>>
         [] req.thunk = "questions/create" ->
              /\ ServerInsertQuestion
              /\ requests' = [requests EXCEPT ![r] =
                    Request(req.thunk, "replied", req.arg, <<>>)]
         [] req.thunk = "questions/createResponse" ->
              /\ ServerInsertResponse(req.arg)
              /\ requests' = [requests EXCEPT ![r] =
                    Request(req.thunk, "replied", req.arg, <<>>)]
         [] req.thunk = "questions/updateStatus" ->
              /\ ServerUpdateStatus(req.arg, req.payload[1])
              /\ requests' = [requests EXCEPT ![r] =
                    Request(req.thunk, "replied", req.arg, <<>>)]
    /\ UNCHANGED <<storeVars, lastOp, modalQuestion, synced, received, isConnected, auth, localStorage, resumeSubmit, statusFilter, isUpdating, connVars>>

SyncServerHandle == \E r \in 1..MaxRequests : ServerHandle(r)

\* Another client creates a question.
OtherCreateQuestion ==
    /\ ServerInsertQuestion
    /\ UNCHANGED <<storeVars, lastOp, requests, modalQuestion, synced, received, isConnected, auth, localStorage, resumeSubmit, statusFilter, isUpdating, connVars>>

\* Another client answers a question.
OtherCreateResponse ==
    \E i \in DOMAIN srvQuestions :
        /\ ServerInsertResponse(srvQuestions[i].question_id)
        /\ UNCHANGED <<storeVars, lastOp, requests, modalQuestion, synced, received, isConnected, auth, localStorage, resumeSubmit, statusFilter, isUpdating, connVars>>

\* The reply of request r arrives: the thunk's fulfilled reducer runs.
\* The fulfilled action of createResponse also settles the promise that
\* handleSubmit awaits: its continuation is recorded in resumeSubmit.
\* The page renders the new list, and the card that awaited this request,
\* if it is still mounted, sets its isUpdating to false.
Fulfil(r) ==
    LET req == requests[r] IN
    /\ req.thunk # "none"
    /\ req.stage = "replied"
    /\ CASE req.thunk = "questions/fetch" ->
              /\ fetchQuestions_fulfilled(req.payload)
              /\ requests' = [requests EXCEPT ![r] = NoRequest]
              /\ synced' = [synced EXCEPT !.list = TRUE]
         [] req.thunk = "questions/fetchResponses" ->
              /\ fetchResponses_fulfilled(req.payload)
              /\ requests' = [requests EXCEPT ![r] = NoRequest]
              /\ synced' = [synced EXCEPT !.responsesOf = req.arg]
         [] req.thunk = "questions/create" ->
              /\ createQuestion_fulfilled
              /\ requests' = [requests EXCEPT ![r] = NoRequest]
              /\ UNCHANGED synced
         [] req.thunk = "questions/updateStatus" ->
              /\ updateQuestionStatus_fulfilled
              /\ requests' = [requests EXCEPT ![r] = NoRequest]
              /\ UNCHANGED synced
         [] req.thunk = "questions/createResponse" ->
              /\ createResponse_fulfilled
              /\ requests' = [requests EXCEPT ![r] = NoRequest]
              /\ UNCHANGED synced
    /\ resumeSubmit' = IF req.thunk = "questions/createResponse" THEN req.arg ELSE 0
    /\ isUpdating' = [Rerender(questions', statusFilter) EXCEPT ![r] = 0]
    /\ lastOp' = [type |-> req.thunk \o "/fulfilled", payload |-> NoPayload]
    /\ Render(req.thunk \in {"questions/fetch", "questions/fetchResponses"})
    /\ UNCHANGED <<srvQuestions, srvResponses, channel, modalQuestion, received, auth, localStorage, statusFilter, connVars>>

SyncFulfil == \E r \in 1..MaxRequests : NoContinuation /\ Fulfil(r)

\* handleSubmit runs on after its await: it clears the form and dispatches
\* fetchResponses(question.question_id), with the question of the modal it
\* was submitted in, whether or not that modal is still open.
SyncResumeSubmit ==
    /\ resumeSubmit # 0
    /\ Dispatch("questions/fetchResponses", resumeSubmit)
    /\ resumeSubmit' = 0
    /\ Render(FALSE)
    /\ UNCHANGED <<srvQuestions, srvResponses, channel, modalQuestion, synced, received,
                   auth, localStorage, statusFilter, isUpdating, connVars>>

\* The open socket delivers the oldest message in flight to ws.onmessage.
SyncDeliver ==
    /\ NoContinuation
    /\ channel # <<>>
    /\ sockets[wsRef] = "OPEN"
    /\ onmessage(Head(channel))
    /\ channel' = Tail(channel)
    /\ isUpdating' = Rerender(questions', statusFilter)
    /\ lastOp' = [type |-> Head(channel).type, payload |-> NoPayload]
    /\ Render(onmessageAssigns(Head(channel)))
    /\ UNCHANGED <<srvQuestions, srvResponses, requests, modalQuestion, synced, received,
                   auth, localStorage, resumeSubmit, statusFilter, connVars>>

NextSync ==
    \/ SyncFetchQuestions
    \/ SyncCreateQuestion
    \/ SyncViewResponses
    \/ SyncCloseModal
    \/ SyncCreateResponse
    \/ SyncSetStatusFilter
    \/ SyncServerHandle
    \/ OtherCreateQuestion
    \/ OtherCreateResponse
    \/ SyncFulfil
    \/ SyncResumeSubmit
    \/ SyncDeliver

SpecSync == InitSync /\ [][NextSync]_vars

\* SpecFetch: the part of SpecSync that concerns the question list: list
\* fetches and question creations, by this client and by others, and the
\* delivery of the pushes; no modal and no responses.
NextFetch ==
    \/ SyncFetchQuestions
    \/ SyncCreateQuestion
    \/ SyncServerHandle
    \/ OtherCreateQuestion
    \/ SyncFulfil
    \/ SyncDeliver

SpecFetch == InitSync /\ [][NextFetch]_vars

\* SpecModerate: the question list on the page of a logged-in moderator:
\* list fetches, questions created by others, the filter tabs and the
\* status buttons, whose requests the server answers by changing the
\* question and broadcasting question_updated.
MaxModerated == 1       \* SpecModerate: questions created on the server

ModeratorItems == [token |-> "t1", username |-> "ann"]

InitModerate ==
    /\ PageMounted
    /\ HookOpen
    /\ DefaultEnv
    /\ localStorage = ModeratorItems
    /\ auth = getInitialState(localStorage)

ModOtherCreateQuestion ==
    /\ Len(srvQuestions) < MaxModerated
    /\ ServerInsertQuestion
    /\ UNCHANGED <<storeVars, lastOp, requests, modalQuestion, synced, received, isConnected,
                   auth, localStorage, resumeSubmit, statusFilter, isUpdating, connVars>>

NextModerate ==
    \/ SyncFetchQuestions
    \/ SyncStatusChange
    \/ SyncSetStatusFilter
    \/ SyncServerHandle
    \/ ModOtherCreateQuestion
    \/ SyncFulfil
    \/ SyncDeliver

SpecModerate == InitModerate /\ [][NextModerate]_vars

---------------------------------------------------------------------------
(* SpecLifecycle: the five thunks against the store's flags.  Up to        *)
(* MaxRequests requests are in flight at once; each ends fulfilled, with   *)
(* some response.data, or rejected, with or without a detail from the      *)
(* server; clearError is dispatched at any moment.                         *)

\* error.response?.data?.detail: missing, empty, or a message.
Details == {NULL, "", ServerDetail}

\* response.data of a fulfilled thunk (the reducers of three of them ignore it).
ResponseData(thunk) ==
    CASE thunk = "questions/fetch"          -> SelectLists
      [] thunk = "questions/fetchResponses" -> ResponseLists
      [] OTHER -> {<<>>}

fulfilled(thunk, payload) ==
    CASE thunk = "questions/fetch"          -> fetchQuestions_fulfilled(payload)
      [] thunk = "questions/create"         -> createQuestion_fulfilled
      [] thunk = "questions/updateStatus"   -> updateQuestionStatus_fulfilled
      [] thunk = "questions/fetchResponses" -> fetchResponses_fulfilled(payload)
      [] thunk = "questions/createResponse" -> createResponse_fulfilled

InitLifecycle ==
    /\ InitStore
    /\ lastOp = NoOp
    /\ HookCreated
    /\ DefaultEnv
    /\ SyncIdle
    /\ Guest

LifeDispatch ==
    \E thunk \in Thunks :
        /\ Dispatch(thunk, 0)
        /\ Render(FALSE)
        /\ UNCHANGED <<srvQuestions, srvResponses, channel, modalQuestion, synced,
                       received, auth, localStorage, resumeSubmit, statusFilter, isUpdating, connVars>>

LifeFulfil ==
    \E r \in 1..MaxRequests :
        \E payload \in ResponseData(requests[r].thunk) :
            /\ requests[r] # NoRequest
            /\ fulfilled(requests[r].thunk, payload)
            /\ requests' = [requests EXCEPT ![r] = NoRequest]
            /\ lastOp' = [type |-> requests[r].thunk \o "/fulfilled",
                          payload |-> NoPayload]
            /\ Render(requests[r].thunk \in {"questions/fetch", "questions/fetchResponses"})
            /\ UNCHANGED <<srvQuestions, srvResponses, channel, modalQuestion, synced,
                           received, auth, localStorage, resumeSubmit, statusFilter, isUpdating, connVars>>

LifeReject ==
    \E r \in 1..MaxRequests, detail \in Details :
        /\ requests[r] # NoRequest
        /\ rejected(requests[r].thunk, RejectValue(requests[r].thunk, detail))
        /\ requests' = [requests EXCEPT ![r] = NoRequest]
        /\ lastOp' = [type |-> requests[r].thunk \o "/rejected",
                      payload |-> [thunk |-> requests[r].thunk, detail |-> detail,
                                   message |-> RejectValue(requests[r].thunk, detail)]]
        /\ Render(FALSE)
        /\ UNCHANGED <<srvQuestions, srvResponses, channel, modalQuestion, synced,
                       received, auth, localStorage, resumeSubmit, statusFilter, isUpdating, connVars>>

LifeClearError ==
    /\ clearError
    /\ lastOp' = [type |-> "questions/clearError", payload |-> NoPayload]
    /\ Render(FALSE)
    /\ UNCHANGED <<connVars, syncRest>>

NextLifecycle ==
    \/ LifeDispatch
    \/ LifeFulfil
    \/ LifeReject
    \/ LifeClearError

SpecLifecycle == InitLifecycle /\ [][NextLifecycle]_vars

---------------------------------------------------------------------------
(* SpecRouter: ws.onmessage against any frames.  The hook connects; the    *)
(* server sends frames while the socket is open and may close it, after    *)
(* which the hook reconnects.  A frame is the text of event.data: the      *)
(* JSON of a message, or text that is not JSON.  `received` is the list    *)
(* of the frames handled so far; lastOp records the last frame, how the    *)
(* handler ended, the connection it came on, and whether a frame that      *)
(* does not parse came on that connection before or with it.               *)

MaxReceived == 3        \* frames received in a run
MaxConnections == 2     \* connections made in a run

\* The messages whose JSON is sent: the three known types and a ping.
RouterMessages ==
    {[type |-> "new_question", data |-> q] : q \in SelectPayloads}
        \cup {[type |-> "question_updated", data |-> q] : q \in SelectPayloads}
        \cup {[type |-> "new_response", data |-> r] : r \in ResponsePayloads}
        \cup {[type |-> "ping", data |-> NoPayload]}

Frames ==
    {[text |-> "json", value |-> m] : m \in RouterMessages}
        \cup {[text |-> "not json", value |-> NoPayload]}

\* JSON.parse(event.data): the message, or a SyntaxError.
JSONparse(data) ==
    IF data.text = "json"
    THEN [threw |-> FALSE, value |-> data.value]
    ELSE [threw |-> TRUE, value |-> NoPayload]

KnownTypes == {"new_question", "question_updated", "new_response"}

\* Mutant of receive: a parse failure is reported in the store's error.
receive_ParseErrorToStore(data) ==
    LET parsed == JSONparse(data) IN
    IF parsed.threw
    THEN /\ error' = "Error parsing WebSocket message"
         /\ UNCHANGED <<questions, selectedQuestion, responses, loading>>
    ELSE onmessage(parsed.value)

\* The store's part of ws.onmessage: parse and route inside try, log in catch.
receive(data) ==
    LET parsed == JSONparse(data) IN
    IF parsed.threw THEN UNCHANGED storeVars ELSE onmessage(parsed.value)

\* How the handler ends: a dispatch, the default branch, or the catch.
receiveOutcome(data) ==
    LET parsed == JSONparse(data) IN
    IF parsed.threw THEN "caught"
    ELSE IF parsed.value.type \in KnownTypes THEN "dispatched" ELSE "logged"

\* ws.onmessage of socket s with event.data = data.
OnMessage(s, data) ==
    /\ sockets[s] = "OPEN"
    /\ receive(data)
    /\ received' = Append(received, data)
    /\ lastOp' = [type |-> "ws/message", payload |-> data,
                  outcome |-> receiveOutcome(data), conn |-> attempts,
                  garbled |-> \/ JSONparse(data).threw
                              \/ /\ lastOp.type = "ws/message"
                                 /\ lastOp.conn = attempts
                                 /\ lastOp.garbled]
    /\ Render(~JSONparse(data).threw /\ onmessageAssigns(JSONparse(data).value))
    /\ UNCHANGED <<connVars, auth, localStorage, resumeSubmit, statusFilter, isUpdating>>

InitRouter ==
    /\ InitStore
    /\ lastOp = NoOp
    /\ HookCreated
    /\ DefaultEnv
    /\ SyncIdle
    /\ Guest

RouterSetup == effect = "idle" /\ Setup /\ UNCHANGED <<storeVars, lastOp, syncVars>>
RouterOpen == \E s \in SocketIds : OnOpen(s) /\ UNCHANGED <<storeVars, lastOp, syncVars>>
RouterClose == \E s \in SocketIds : OnClose(s) /\ UNCHANGED <<storeVars, lastOp, syncVars>>

RouterTimer ==
    \E t \in TimerIds :
        /\ attempts < MaxConnections
        /\ TimerFire(t)
        /\ UNCHANGED <<storeVars, lastOp, syncVars>>

RouterMessage ==
    \E s \in SocketIds, data \in Frames :
        /\ Len(received) < MaxReceived
        /\ OnMessage(s, data)
        /\ UNCHANGED <<srvQuestions, srvResponses, requests, channel, modalQuestion,
                       synced>>

NextRouter ==
    \/ RouterSetup
    \/ RouterOpen
    \/ RouterClose
    \/ RouterTimer
    \/ RouterMessage

SpecRouter == InitRouter /\ [][NextRouter]_vars

---------------------------------------------------------------------------
(* SpecTransport: the connection manager's failures and the store.         *)

\* The hook and the thunks together: one setup, the connection events of a
\* channel that may fail at any time (or whose constructor throws), and the
\* five thunks dispatched and settled at any time.
InitTransport ==
    /\ InitStore
    /\ lastOp = NoOp
    /\ HookCreated
    /\ SyncIdle
    /\ Guest
    /\ apiIsHttp = TRUE
    /\ pageIsHttps = FALSE
    /\ ctorThrows \in BOOLEAN

TransSetup == effect = "idle" /\ Setup /\ UNCHANGED <<storeVars, lastOp, syncVars>>
TransOpen == \E s \in SocketIds : OnOpen(s) /\ UNCHANGED <<storeVars, lastOp, syncVars>>

\* Mutant of TransError: the error event is reported in the store.
TransError_ReportsError ==
    \E s \in SocketIds :
        /\ OnError(s)
        /\ error' = "WebSocket error"
        /\ UNCHANGED <<questions, selectedQuestion, responses, loading, lastOp, syncVars>>

TransError == \E s \in SocketIds : OnError(s) /\ UNCHANGED <<storeVars, lastOp, syncVars>>
TransClose == \E s \in SocketIds : OnClose(s) /\ UNCHANGED <<storeVars, lastOp, syncVars>>
TransTimer ==
    \E t \in TimerIds :
        /\ attempts < MaxConnections
        /\ TimerFire(t)
        /\ UNCHANGED <<storeVars, lastOp, syncVars>>

NextTransport ==
    \/ TransSetup
    \/ TransOpen
    \/ TransError
    \/ TransClose
    \/ TransTimer
    \/ LifeDispatch
    \/ LifeFulfil
    \/ LifeReject

SpecTransport == InitTransport /\ [][NextTransport]_vars

---------------------------------------------------------------------------
(* SpecReplace: fetchResponses.fulfilled against any stored responses.     *)
(* The store gets a question list and a selection, pushes append          *)
(* responses, and a fetchResponses in flight is fulfilled with any list    *)
(* of up to MaxFetched responses, in any order.  lastOp records the        *)
(* payload and whether a response held before is not in it.                *)

MaxFetched == 2         \* responses in a fetched list
MaxStored == 2          \* pushes appended before a fetch replaces them

ReplaceRIds == {1, 2}
ReplacePayloads == [response_id : ReplaceRIds, question_id : QIds]
ReplaceLists == UNION {[1..n -> ReplacePayloads] : n \in 0..MaxFetched}

InitReplace ==
    /\ InitStore
    /\ lastOp = NoOp
    /\ HookCreated
    /\ DefaultEnv
    /\ SyncIdle
    /\ Guest

RepFetchQuestionsFulfilled ==
    \E payload \in SelectLists :
        /\ lastOp.type = "@@INIT"
        /\ fetchQuestions_fulfilled(payload)
        /\ lastOp' = [type |-> "questions/fetch/fulfilled", payload |-> payload]
        /\ UNCHANGED <<connVars, syncVars>>

RepSetSelectedQuestion ==
    \E payload \in Range(questions) :
        /\ lastOp.type = "questions/fetch/fulfilled"
        /\ setSelectedQuestion(payload)
        /\ lastOp' = [type |-> "questions/setSelectedQuestion", payload |-> payload]
        /\ UNCHANGED <<connVars, syncVars>>

RepAddResponse ==
    \E payload \in ReplacePayloads :
        /\ Len(responses) < MaxStored
        /\ \A i \in DOMAIN questions : questions[i].response_count < MaxStored
        /\ addResponse(payload)
        /\ lastOp' = [type |-> "questions/addResponse", payload |-> payload]
        /\ UNCHANGED <<connVars, syncVars>>

\* The modal's effect: dispatch(fetchResponses(id)); one is in flight at a time.
RepFetchResponses ==
    \E qid \in QIds :
        /\ \A r \in 1..MaxRequests : requests[r] = NoRequest
        /\ Dispatch("questions/fetchResponses", qid)
        /\ UNCHANGED <<srvQuestions, srvResponses, channel, modalQuestion, synced,
                       received, isConnected, auth, localStorage, resumeSubmit, statusFilter, isUpdating, connVars>>

RepFetchResponsesFulfilled ==
    \E r \in 1..MaxRequests, payload \in ReplaceLists :
        /\ requests[r] # NoRequest
        /\ fetchResponses_fulfilled(payload)
        /\ requests' = [requests EXCEPT ![r] = NoRequest]
        /\ lastOp' = [type |-> "questions/fetchResponses/fulfilled",
                      payload |-> payload,
                      dropped |-> \E i \in DOMAIN responses :
                                     responses[i] \notin Range(payload)]
        /\ UNCHANGED <<srvQuestions, srvResponses, channel, modalQuestion, synced,
                       received, isConnected, auth, localStorage, resumeSubmit, statusFilter, isUpdating, connVars>>

NextReplace ==
    \/ RepFetchQuestionsFulfilled
    \/ RepSetSelectedQuestion
    \/ RepAddResponse
    \/ RepFetchResponses
    \/ RepFetchResponsesFulfilled

SpecReplace == InitReplace /\ [][NextReplace]_vars

---------------------------------------------------------------------------
(* SpecFrame: every reducer of the slice against stores whose questions    *)
(* tie in the sort (one created_at, two statuses), with a selection and    *)
(* stored responses.  lastOp records each action's type and payload.       *)

\* Lists a GET /api/questions can return here: distinct ids, any order.
FrameLists ==
    UNION {{s \in [1..n -> SelectPayloads] :
               \A i, j \in 1..n : i # j => s[i].question_id # s[j].question_id}
           : n \in 0..Cardinality(QIds)}

InitFrame ==
    /\ InitStore
    /\ lastOp = NoOp
    /\ HookCreated
    /\ DefaultEnv
    /\ SyncIdle
    /\ Guest

\* A new_question push for a question the store does not hold.
FrameAddQuestion ==
    \E payload \in SelectPayloads :
        /\ findIndex(questions, payload.question_id) = 0
        /\ addQuestion(payload)
        /\ lastOp' = [type |-> "questions/addQuestion", payload |-> payload]
        /\ UNCHANGED <<connVars, syncVars>>

FrameUpdateQuestion ==
    \E payload \in SelectPayloads :
        /\ updateQuestion(payload)
        /\ lastOp' = [type |-> "questions/updateQuestion", payload |-> payload]
        /\ UNCHANGED <<connVars, syncVars>>

FrameSetSelectedQuestion ==
    \E payload \in Range(questions) :
        /\ selectedQuestion = NullQuestion
        /\ setSelectedQuestion(payload)
        /\ lastOp' = [type |-> "questions/setSelectedQuestion", payload |-> payload]
        /\ UNCHANGED <<connVars, syncVars>>

FrameAddResponse ==
    \E payload \in ResponsePayloads :
        /\ Len(responses) < MaxStored
        /\ \A i \in DOMAIN questions : questions[i].response_count < MaxStored
        /\ addResponse(payload)
        /\ lastOp' = [type |-> "questions/addResponse", payload |-> payload]
        /\ UNCHANGED <<connVars, syncVars>>

FrameFetchQuestionsFulfilled ==
    \E payload \in FrameLists :
        /\ fetchQuestions_fulfilled(payload)
        /\ lastOp' = [type |-> "questions/fetch/fulfilled", payload |-> payload]
        /\ Render(TRUE)
        /\ UNCHANGED <<connVars, syncRest>>

\* The other lifecycle actions of the five thunks.
FrameLifecycle ==
    \E thunk \in Thunks :
        \/ /\ pending(thunk)
           /\ lastOp' = [type |-> thunk \o "/pending", payload |-> NoPayload]
           /\ UNCHANGED <<connVars, syncVars>>
        \/ /\ rejected(thunk, RejectValue(thunk, ServerDetail))
           /\ lastOp' = [type |-> thunk \o "/rejected", payload |-> NoPayload]
           /\ UNCHANGED <<connVars, syncVars>>
        \/ \E payload \in ResponseData(thunk) :
              /\ thunk # "questions/fetch"
              /\ fulfilled(thunk, payload)
              /\ lastOp' = [type |-> thunk \o "/fulfilled", payload |-> payload]
              /\ UNCHANGED <<connVars, syncVars>>

NextFrame ==
    \/ FrameAddQuestion
    \/ FrameUpdateQuestion
    \/ FrameSetSelectedQuestion
    \/ FrameAddResponse
    \/ FrameFetchQuestionsFulfilled
    \/ FrameLifecycle

SpecFrame == InitFrame /\ [][NextFrame]_vars

---------------------------------------------------------------------------
(* SpecModal: ForumPage's modal and the pushes.  The fetch of the mount   *)
(* is fulfilled, the user opens the modal on a question of the list        *)
(* (ForumPage keeps that question in its own state and ResponseModal       *)
(* fetches its responses) and closes it, and question_updated pushes       *)
(* arrive on the open socket.                                              *)

\* ws.onmessage with a question_updated message.
ModalQuestionUpdated ==
    \E payload \in SelectPayloads :
        /\ wsRef # 0
        /\ sockets[wsRef] = "OPEN"
        /\ onmessage([type |-> "question_updated", data |-> payload])
        /\ lastOp' = [type |-> "questions/updateQuestion", payload |-> payload]
        /\ Render(onmessageAssigns([type |-> "question_updated", data |-> payload]))
        /\ UNCHANGED <<connVars, syncRest>>

NextModal ==
    \/ SyncViewResponses
    \/ SyncCloseModal
    \/ LifeFulfil
    \/ ModalQuestionUpdated

SpecModal == InitSync /\ [][NextModal]_vars

---------------------------------------------------------------------------
(* SpecAuth: the auth slice from getInitialState() on, in a browser whose  *)
(* storage holds any items or on the server.  register and login are      *)
(* dispatched (at most MaxRequests in flight) and each settles as          *)
(* fulfilled, with a body of AuthResponses, or as rejected; logout and     *)
(* clearError are dispatched at any time.                                  *)

auth_pending(thunk) ==
    IF thunk = "auth/register" THEN register_pending ELSE login_pending

auth_fulfilled(thunk, payload) ==
    IF thunk = "auth/register" THEN register_fulfilled(payload)
    ELSE login_fulfilled(payload)

auth_rejected(thunk, payload) ==
    IF thunk = "auth/register" THEN register_rejected(payload)
    ELSE login_rejected(payload)

InitAuth ==
    /\ InitStore
    /\ lastOp = NoOp
    /\ HookCreated
    /\ DefaultEnv
    /\ srvQuestions = <<>>
    /\ srvResponses = <<>>
    /\ requests = [r \in 1..MaxRequests |-> NoRequest]
    /\ channel = <<>>
    /\ modalQuestion = NullQuestion
    /\ synced = [list |-> FALSE, responsesOf |-> 0]
    /\ received = <<>>
    /\ isConnected = FALSE
    /\ resumeSubmit = 0
    /\ statusFilter = "all"
    /\ isUpdating = [r \in 1..MaxRequests |-> 0]
    /\ localStorage \in Storages
    /\ auth = getInitialState(localStorage)

\* dispatch(register(...)) or dispatch(login(...)): the pending action.
AuthDispatch ==
    \E thunk \in AuthThunks :
        /\ FreeRequest # 0
        /\ auth_pending(thunk)
        /\ requests' = [requests EXCEPT ![FreeRequest] = Request(thunk, "sent", 0, <<>>)]
        /\ lastOp' = [type |-> thunk \o "/pending", payload |-> NoPayload]
        /\ UNCHANGED <<storeVars, connVars, srvQuestions, srvResponses, channel,
                       modalQuestion, synced, received, isConnected, resumeSubmit, statusFilter, isUpdating>>

\* The POST of a request in flight answers 2xx.
AuthFulfil ==
    \E r \in 1..MaxRequests, payload \in AuthResponses :
        /\ requests[r] # NoRequest
        /\ auth_fulfilled(requests[r].thunk, payload)
        /\ requests' = [requests EXCEPT ![r] = NoRequest]
        /\ lastOp' = [type |-> requests[r].thunk \o "/fulfilled", payload |-> payload]
        /\ UNCHANGED <<storeVars, connVars, srvQuestions, srvResponses, channel,
                       modalQuestion, synced, received, isConnected, resumeSubmit, statusFilter, isUpdating>>

\* The POST of a request in flight fails.
AuthReject ==
    \E r \in 1..MaxRequests, detail \in Details :
        /\ requests[r] # NoRequest
        /\ auth_rejected(requests[r].thunk, AuthRejectValue(requests[r].thunk, detail))
        /\ requests' = [requests EXCEPT ![r] = NoRequest]
        /\ lastOp' = [type |-> requests[r].thunk \o "/rejected",
                      payload |-> AuthRejectValue(requests[r].thunk, detail)]
        /\ UNCHANGED <<storeVars, connVars, srvQuestions, srvResponses, channel,
                       modalQuestion, synced, received, isConnected, resumeSubmit, statusFilter, isUpdating>>

\* The navigation bar's handleLogout: dispatch(logout()).
AuthLogout ==
    /\ logout
    /\ lastOp' = [type |-> "auth/logout", payload |-> NoPayload]
    /\ UNCHANGED <<storeVars, connVars, srvQuestions, srvResponses, requests, channel,
                   modalQuestion, synced, received, isConnected, resumeSubmit, statusFilter, isUpdating>>

\* The login and register pages: dispatch(clearError()).
AuthClearError ==
    /\ auth_clearError
    /\ lastOp' = [type |-> "auth/clearError", payload |-> NoPayload]
    /\ UNCHANGED <<storeVars, connVars, srvQuestions, srvResponses, requests, channel,
                   modalQuestion, synced, received, isConnected, resumeSubmit, statusFilter, isUpdating>>

NextAuth ==
    \/ AuthDispatch
    \/ AuthFulfil
    \/ AuthReject
    \/ AuthLogout
    \/ AuthClearError

SpecAuth == InitAuth /\ [][NextAuth]_vars

---------------------------------------------------------------------------
(* Vocabulary of the properties.                                           *)

\* The priority the specification gives each status.
Rank(status) ==
    CASE status = "Escalated" -> 0
      [] status = "Pending"   -> 1
      [] status = "Answered"  -> 2

\* Every adjacent pair is in status-priority order, newest first on a tie.
Ordered(qs) ==
    \A i \in 1..(Len(qs) - 1) :
        LET a == qs[i]
            b == qs[i + 1]
        IN  /\ Rank(a.status) <= Rank(b.status)
            /\ Rank(a.status) = Rank(b.status) => a.created_at >= b.created_at

Occurrences(x, s) == Cardinality({i \in DOMAIN s : s[i] = x})

IsPermutation(s, t) ==
    /\ Len(s) = Len(t)
    /\ \A x \in Range(s) \cup Range(t) : Occurrences(x, s) = Occurrences(x, t)

WithId(qs, id) == {i \in DOMAIN qs : qs[i].question_id = id}

---------------------------------------------------------------------------
(* Properties of the store.                                                *)

\* C1 (as claimed): two consecutive addQuestion calls with the same
\* question_id leave exactly one entry with that id, equal to the second
\* call's payload.
C1_IdempotentUpsert ==
    [][(/\ lastOp.type = "questions/addQuestion"
        /\ lastOp'.type = "questions/addQuestion"
        /\ lastOp'.payload.question_id = lastOp.payload.question_id)
       => (/\ Cardinality(WithId(questions', lastOp'.payload.question_id)) = 1
           /\ \E i \in DOMAIN questions' : questions'[i] = lastOp'.payload)]_vars

\* C7: after fetchQuestions.fulfilled(L) the questions collection is a
\* permutation of L ordered by status priority, then created_at descending.
C7_SortedAfterBulkReplace ==
    lastOp.type = "questions/fetch/fulfilled"
        => /\ IsPermutation(questions, lastOp.payload)
           /\ Ordered(questions)

\* C7 witness: the scenario's list (Pending of day 1, then Escalated of day 2)
\* was applied and came out in the order [2, 1].
C7_Witness ==
    /\ lastOp.type = "questions/fetch/fulfilled"
    /\ Len(lastOp.payload) = 2
    /\ lastOp.payload[1].question_id = 1
    /\ lastOp.payload[1].status = "Pending"
    /\ lastOp.payload[1].created_at = 1
    /\ lastOp.payload[2].question_id = 2
    /\ lastOp.payload[2].status = "Escalated"
    /\ lastOp.payload[2].created_at = 2
    /\ questions[1].question_id = 2
    /\ questions[2].question_id = 1

\* C8: in every reachable state the questions collection is ordered by
\* status priority and then by created_at descending.
C8_AlwaysSorted == Ordered(questions)

\* C8 witness: a status update has just moved a question in a list of two
\* questions that differ in status.
C8_Witness ==
    /\ lastOp.type = "questions/updateQuestion"
    /\ Len(questions) = 2
    /\ questions[1].status # questions[2].status
    /\ questions[1] = lastOp.payload

\* C9: addResponse(r) raises the response_count of one question with
\* r.question_id by exactly 1 and changes nothing else in questions; when no
\* question matches, questions is unchanged.
C9_CounterConsistency ==
    [][lastOp'.type = "questions/addResponse"
       => LET matching == WithId(questions, lastOp'.payload.question_id)
          IN  IF matching = {} THEN questions' = questions
              ELSE \E i \in matching :
                     questions' = [questions EXCEPT
                                     ![i].response_count = @ + 1]]_vars

\* C9 witness: addResponse has just been applied to a store holding the
\* question it names, beside a question it does not name.
C9_Witness ==
    /\ lastOp.type = "questions/addResponse"
    /\ Len(questions) = 2
    /\ questions[1].question_id # questions[2].question_id
    /\ \E i \in DOMAIN questions :
          /\ questions[i].question_id = lastOp.payload.question_id
          /\ questions[i].response_count = 1

---------------------------------------------------------------------------
(* Properties of the connection manager.                                   *)

LiveSockets == {s \in SocketIds : Live(s)}
Stopped == effect = "cleaned"
Connecting == \E s \in SocketIds : sockets[s] = "CONNECTING"
\* Closed(pending-reconnect): no live connection and one reconnect timer.
ClosedPendingReconnect == LiveSockets = {} /\ Cardinality(timers) = 1

\* C3 (as claimed): while the hook is stopped (cleanup has run and setup has
\* not run again) no step constructs a WebSocket or schedules a reconnect
\* timer.
C3_StopSuppressesReconnect ==
    Stopped => ~lastConn.constructed /\ ~lastConn.scheduled

\* C4 (as claimed): at most one WebSocket is Connecting or Open.
C4_AtMostOneLiveConnection == Cardinality(LiveSockets) <= 1

\* C6 (as claimed): after a close event or an error event while the hook is
\* not stopped the manager is in Closed(pending-reconnect): no live
\* connection and exactly one reconnect timer pending.
C6_OneReconnectPerFailure ==
    (effect = "active" /\ lastConn.op \in {"onclose", "onerror"})
        => ClosedPendingReconnect

\* C5: against a channel that closes right after every open, and while the
\* hook is not stopped, every close event leaves exactly one reconnect timer
\* and no live connection, there is never more than one live connection or
\* pending timer, and every close event is followed by a new Connecting
\* socket, again and again (or by stop).
C5_ReconnectRepeats ==
    /\ [](effect = "active"
            => Cardinality(LiveSockets) <= 1 /\ Cardinality(timers) <= 1)
    /\ []((effect = "active" /\ lastConn.op = "onclose") => ClosedPendingReconnect)
    /\ ((effect = "active" /\ lastConn.op = "onclose") ~> (Connecting \/ Stopped))

\* C5 witness: the hook is not stopped and is connecting for at least the
\* MaxAttempts-th time, a timer having fired after the latest close.
C5_Witness ==
    /\ effect = "active"
    /\ attempts = MaxAttempts
    /\ lastConn.op = "timer"
    /\ lastConn.constructed
    /\ Connecting

\* No request is in flight and no push message is undelivered.
Quiescent ==
    /\ \A r \in 1..MaxRequests : requests[r] = NoRequest
    /\ channel = <<>>

\* The responses the store holds for question qid.
StoredResponses(qid) == {i \in DOMAIN responses : responses[i].question_id = qid}

\* C2: whatever the interleaving of pushed new_question deliveries, list
\* fetches and this client's own createQuestion calls, no two entries of
\* the store's questions have the same question_id.
C2_QuestionIdsUnique ==
    \A i, j \in DOMAIN questions :
        i # j => questions[i].question_id # questions[j].question_id

\* C10: in a quiescent state reached after the question list and the
\* responses of question Q have both been fetched, Q's response_count in
\* the store equals the number of responses the store holds for Q.
C10_ResponseCountMatches ==
    (Quiescent /\ synced.list /\ synced.responsesOf # 0) =>
        \A i \in WithId(questions, synced.responsesOf) :
            questions[i].response_count
                = Cardinality(StoredResponses(synced.responsesOf))

---------------------------------------------------------------------------
(* Properties of the selection.                                            *)

\* The selection held a question with this id.
Selects(selection, id) ==
    selection # NullQuestion /\ selection.question_id = id

\* C11: after updateQuestion(q), if the selected question had q's
\* question_id then selectedQuestion equals q; if it had another id or was
\* null, selectedQuestion is what it was.
C11_SelectedQuestionCoherence ==
    lastOp.type = "questions/updateQuestion" =>
        IF Selects(lastOp.before, lastOp.payload.question_id)
        THEN selectedQuestion = lastOp.payload
        ELSE selectedQuestion = lastOp.before

\* C11 witness: updateQuestion(q) has replaced a selection with q's id and
\* another status by q.
C11_Witness ==
    /\ lastOp.type = "questions/updateQuestion"
    /\ Selects(lastOp.before, lastOp.payload.question_id)
    /\ lastOp.before.status # lastOp.payload.status
    /\ selectedQuestion = lastOp.payload

\* C12 (as claimed): updateQuestion(q), when no question of the collection
\* has q's question_id, leaves questions, selectedQuestion, responses,
\* loading and error unchanged.
C12_UpdateUnknownIsNoOp ==
    [][(lastOp'.type = "questions/updateQuestion" /\ lastOp'.absent)
          => UNCHANGED storeVars]_vars

\* C12 (amended): updateQuestion(q), when no question of the collection has
\* q's question_id, leaves questions, responses, loading and error
\* unchanged; selectedQuestion becomes q if it had q's question_id and is
\* unchanged otherwise.
C12_UpdateUnknownKeepsCollection ==
    [][(lastOp'.type = "questions/updateQuestion" /\ lastOp'.absent)
          => /\ UNCHANGED <<questions, responses, loading, error>>
             /\ selectedQuestion' =
                   IF Selects(selectedQuestion, lastOp'.payload.question_id)
                   THEN lastOp'.payload ELSE selectedQuestion]_vars

\* C12 witness: updateQuestion(q) has run on a collection that holds a
\* question, none with q's id, while a question with q's id and another
\* status was selected.
C12_Witness ==
    /\ lastOp.type = "questions/updateQuestion"
    /\ lastOp.absent
    /\ questions # <<>>
    /\ Selects(lastOp.before, lastOp.payload.question_id)
    /\ lastOp.before.status # lastOp.payload.status

---------------------------------------------------------------------------
(* Properties of the message router.                                       *)

Last(s) == s[Len(s)]
Front(s) == SubSeq(s, 1, Len(s) - 1)

\* This step is ws.onmessage handling a frame.
MessageStep == received' # received

\* The connection is open, as before the step, and no reconnect is scheduled.
StaysOpen ==
    /\ UNCHANGED <<sockets, wsRef, isConnecting, reconnectTimeoutRef, timers>>
    /\ wsRef' # 0
    /\ sockets'[wsRef'] = "OPEN"
    /\ timers' = {}

\* C13: a frame whose message has a type other than new_question,
\* question_updated and new_response leaves the five store fields
\* unchanged, ends in the handler's default branch (nothing is thrown), and
\* leaves the connection open with no reconnect timer.
C13_UnknownTypeIgnored ==
    [][(MessageStep /\ Last(received').text = "json"
            /\ Last(received').value.type \notin KnownTypes)
          => /\ UNCHANGED storeVars
             /\ lastOp'.outcome = "logged"
             /\ StaysOpen]_vars

\* C13 witness: a ping has been handled by a store that holds a question
\* and a response.
C13_Witness ==
    /\ lastOp.type = "ws/message"
    /\ lastOp.payload.text = "json"
    /\ lastOp.payload.value.type = "ping"
    /\ questions # <<>>
    /\ responses # <<>>

\* The state a known message's reducer leaves, as a function of the state.
Applied(st, message) ==
    LET qs    == st.questions
        d     == message.data
        index == IF \E i \in DOMAIN qs : qs[i].question_id = d.question_id
                 THEN CHOOSE i \in DOMAIN qs :
                         /\ qs[i].question_id = d.question_id
                         /\ \A j \in DOMAIN qs :
                               qs[j].question_id = d.question_id => i <= j
                 ELSE 0
    IN  CASE message.type = "new_question" ->
                [st EXCEPT !.questions = sortQuestions(<<d>> \o qs)]
          [] message.type = "question_updated" ->
                [st EXCEPT
                   !.questions = IF index # 0
                                 THEN sortQuestions([qs EXCEPT ![index] = d])
                                 ELSE qs,
                   !.selectedQuestion =
                        IF @ # NullQuestion /\ @.question_id = d.question_id
                        THEN d ELSE @]
          [] message.type = "new_response" ->
                [st EXCEPT
                   !.responses = Append(@, d),
                   !.questions = IF index # 0
                                 THEN [qs EXCEPT ![index].response_count = @ + 1]
                                 ELSE qs]
          [] OTHER -> st

\* The state after handling a frame: a frame that does not parse, or whose
\* type is unknown, changes nothing.
Handled(st, data) ==
    IF data.text = "json" /\ data.value.type \in KnownTypes
    THEN Applied(st, data.value)
    ELSE st

StoreState ==
    [questions |-> questions, selectedQuestion |-> selectedQuestion,
     responses |-> responses, loading |-> loading, error |-> error]

StoreState_next ==
    [questions |-> questions', selectedQuestion |-> selectedQuestion',
     responses |-> responses', loading |-> loading', error |-> error']

InitialStoreState ==
    [questions |-> <<>>, selectedQuestion |-> NullQuestion,
     responses |-> <<>>, loading |-> FALSE, error |-> NULL]

RECURSIVE Replay(_)
Replay(log) ==
    IF log = <<>> THEN InitialStoreState
    ELSE Handled(Replay(Front(log)), Last(log))

\* C14: a frame that does not parse leaves the five store fields unchanged
\* (error included), is caught in the handler, and leaves the connection
\* open with no reconnect timer; and a well-formed message that comes on
\* the same connection after such a frame is applied by its reducer.
C14_MalformedDropped ==
    [][/\ (MessageStep /\ Last(received').text # "json")
            => /\ UNCHANGED storeVars
               /\ lastOp'.outcome = "caught"
               /\ StaysOpen
       /\ (MessageStep /\ Last(received').text = "json" /\ lastOp'.garbled)
            => StoreState_next = Handled(StoreState, Last(received'))]_vars

\* C14 witness: after a frame that did not parse, a new_question that came
\* on the same connection has put its question in the collection.
C14_Witness ==
    /\ lastOp.type = "ws/message"
    /\ lastOp.garbled
    /\ lastOp.payload.text = "json"
    /\ lastOp.payload.value.type = "new_question"
    /\ lastOp.payload.value.data \in Range(questions)

\* C15: after the frames m1..mn have been received the store is the result
\* of applying their handlers, one per frame, in the order m1..mn to the
\* state before m1.
C15_AppliedInOrder == StoreState = Replay(received)

\* C15 witness: three frames whose order matters have been applied: a
\* response to question 1, then question 1 itself, then the same response.
C15_Witness ==
    /\ Len(received) = 3
    /\ received[1] = received[3]
    /\ received[1].text = "json"
    /\ received[2].text = "json"
    /\ received[1].value.type = "new_response"
    /\ received[2].value.type = "new_question"
    /\ received[2].value.data.question_id = received[1].value.data.question_id
    /\ Len(responses) = 2
    /\ Len(questions) = 1
    /\ questions[1].response_count = 1

---------------------------------------------------------------------------
(* Properties of the requests.                                             *)

\* This step applies the reply of request r, a fetchQuestions.
FetchQuestionsApplied(r) ==
    /\ requests[r].thunk = "questions/fetch"
    /\ requests[r].stage = "replied"
    /\ requests'[r] = NoRequest

\* C16: whenever fetchQuestions.fulfilled is applied, questions becomes the
\* sorted payload of that response, whatever the store held and whatever
\* the order in which the fetches in flight were issued.
C16_LastAppliedFetchWins ==
    [][\A r \in 1..MaxRequests :
          FetchQuestionsApplied(r)
             => /\ IsPermutation(questions', requests[r].payload)
                /\ Ordered(questions')]_vars

\* C16 witness: a fetched list that lacks a question has just replaced a
\* collection into which that question's push had been delivered.
C16_Witness ==
    /\ lastOp.type = "questions/fetch/fulfilled"
    /\ srvQuestions # <<>>
    /\ channel = <<>>
    /\ questions = <<>>

\* The action types of the three outcomes of the five thunks.
PendingTypes == {thunk \o "/pending" : thunk \in Thunks}
FulfilledTypes == {thunk \o "/fulfilled" : thunk \in Thunks}
RejectedTypes == {thunk \o "/rejected" : thunk \in Thunks}

\* C17: for each of the five thunks, right after pending loading is true
\* and error is null; right after fulfilled loading is false; right after
\* rejected loading is false and error is the message of the rejection.
C17_RequestLifecycleFlags ==
    /\ lastOp.type \in PendingTypes => loading = TRUE /\ error = NULL
    /\ lastOp.type \in FulfilledTypes => loading = FALSE
    /\ lastOp.type \in RejectedTypes =>
          loading = FALSE /\ error = lastOp.payload.message

\* C17 witness: createResponse has just been dispatched while every other
\* request slot is taken: loading is true and error is null.
C17_Witness ==
    /\ lastOp.type = "questions/createResponse/pending"
    /\ \A r \in 1..MaxRequests : requests[r] # NoRequest
    /\ loading = TRUE
    /\ error = NULL

\* C18: createQuestion.fulfilled, updateQuestionStatus.fulfilled and
\* createResponse.fulfilled leave questions, responses and selectedQuestion
\* unchanged.
C18_CreationDoesNotInsert ==
    [][lastOp'.type \in {"questions/create/fulfilled",
                         "questions/updateStatus/fulfilled",
                         "questions/createResponse/fulfilled"}
          => UNCHANGED <<questions, responses, selectedQuestion>>]_vars

\* C18 witness: createQuestion has been fulfilled in a store that holds a
\* question and a response.
C18_Witness ==
    /\ lastOp.type = "questions/create/fulfilled"
    /\ questions # <<>>
    /\ responses # <<>>
    /\ loading = FALSE

\* C19 (as claimed): right after a thunk's fulfilled action, and right
\* after clearError, error is null.
C19_ErrorClearedOnSuccess ==
    lastOp.type \in FulfilledTypes \cup {"questions/clearError"} => error = NULL

\* The default message the specification gives each operation.
ClaimedDefault(thunk) ==
    CASE thunk = "questions/fetch"          -> "Failed to fetch questions"
      [] thunk = "questions/create"         -> "Failed to create question"
      [] thunk = "questions/updateStatus"   -> "Failed to update question"
      [] thunk = "questions/fetchResponses" -> "Failed to fetch responses"
      [] thunk = "questions/createResponse" -> "Failed to create response"

\* C20: a rejected request sets error to the server's detail when there is
\* one and to the operation's default message otherwise, and leaves
\* questions, responses and selectedQuestion unchanged.
C20_RejectionMessage ==
    [][lastOp'.type \in RejectedTypes
          => /\ error' = IF lastOp'.payload.detail \in {NULL, ""}
                         THEN ClaimedDefault(lastOp'.payload.thunk)
                         ELSE lastOp'.payload.detail
             /\ UNCHANGED <<questions, responses, selectedQuestion>>]_vars

\* C20 witness: createResponse has been rejected without a detail in a
\* store that holds a question and a response; error is its default.
C20_Witness ==
    /\ lastOp.type = "questions/createResponse/rejected"
    /\ lastOp.payload.detail = NULL
    /\ error = "Failed to create response"
    /\ questions # <<>>
    /\ responses # <<>>

\* The connection policy lets connect() go on to its guard.
PolicyAllows == ~(apiIsHttp /\ pageIsHttps)

\* This step calls connect(): from the effect's setup or from a timeout.
ConnectCalled == lastConn'.op \in {"setup", "timer"}

\* C21 (as claimed): connect() called while some WebSocket is Connecting
\* or Open constructs no socket, schedules no timer and changes neither
\* the sockets nor wsRef, isConnecting or the timer ref (a timeout that
\* called it is no longer pending, nothing else changes).
C21_ConnectReentryIsNoOp ==
    [][(ConnectCalled /\ PolicyAllows /\ LiveSockets # {})
          => /\ sockets' = sockets
             /\ wsRef' = wsRef
             /\ isConnecting' = isConnecting
             /\ timers' \subseteq timers
             /\ reconnectTimeoutRef' \in {reconnectTimeoutRef, StaleTimer}
             /\ ~lastConn'.constructed
             /\ ~lastConn'.scheduled]_vars

\* Some connection is Open.
SomeOpen == \E s \in SocketIds : sockets[s] = "OPEN"

\* C22 (as claimed): at most one reconnect timer is pending, and none is
\* pending while a connection is Open.
C22_TimerDiscipline ==
    /\ Cardinality(timers) <= 1
    /\ SomeOpen => timers = {}

\* The manager is Idle: no socket exists or is referenced, no attempt is in
\* progress or was ever made, no timeout is pending or was ever scheduled.
Idle ==
    /\ \A s \in SocketIds : sockets[s] = "NONE"
    /\ wsRef = 0
    /\ ~isConnecting
    /\ timers = {}
    /\ reconnectTimeoutRef = NoTimer
    /\ attempts = 0

\* C23: when the API origin is http:// and the page is https:, the manager
\* is Idle in every reachable state, whatever was called and whether or not
\* the WebSocket constructor would throw: no socket is ever constructed and
\* no reconnect timer is ever scheduled.
C23_PolicyGatedSkip ==
    (apiIsHttp /\ pageIsHttps)
        => Idle /\ ~lastConn.constructed /\ ~lastConn.scheduled

\* C23 witness: in that environment, with a constructor that would throw,
\* the effect has been set up and connect() has returned.
C23_Witness ==
    /\ apiIsHttp /\ pageIsHttps /\ ctorThrows
    /\ effect = "active"
    /\ lastConn.op = "setup"
    /\ Idle

\* C24 (as claimed, for the mounted hook): while the effect is set up, the
\* isConnected value the page holds is true only if a connection is Open.
C24_ExposedOnlyWhenOpen == (effect = "active" /\ isConnected) => SomeOpen

\* A step of the connection manager: an event of a socket, a timeout, the
\* effect's setup or cleanup.
TransportStep == connVars' # connVars
\* Some request slot is free, so another thunk can be in flight.
CanDispatch == \E r \in 1..MaxRequests : requests[r] = NoRequest

\* C25: no step of the connection manager (open, error, close, a timeout and
\* its connection attempt, failed or not) changes a field of the store, and
\* in every state, whatever the connection's, a thunk can be dispatched and a
\* request in flight can be fulfilled or rejected, with the store effects of
\* the reducers: pending sets loading, fulfilled and rejected clear it, and
\* rejected sets error.
C25_TransportErrorsStayOutOfStore ==
    /\ [][TransportStep => UNCHANGED storeVars]_vars
    /\ [](CanDispatch => ENABLED LifeDispatch)
    /\ [](~CanDispatch => ENABLED LifeFulfil /\ ENABLED LifeReject)
    /\ [][(lastOp' # lastOp /\ lastOp'.type \in PendingTypes) => loading']_vars
    /\ [][(lastOp' # lastOp /\ lastOp'.type \in FulfilledTypes) => ~loading']_vars
    /\ [][(lastOp' # lastOp /\ lastOp'.type \in RejectedTypes)
            => ~loading' /\ error' = lastOp'.payload.message]_vars

\* C25 witness: the connection has closed, no socket exists and a reconnect
\* timer is pending; a request has been rejected with the server's detail,
\* which is the store's error, and loading is cleared.
C25_Witness ==
    /\ lastConn.op = "onclose"
    /\ LiveSockets = {}
    /\ timers # {}
    /\ lastOp.type \in RejectedTypes
    /\ error = ServerDetail
    /\ ~loading

\* C25 witness, the frame: an error event has just run while a request was
\* in flight; loading is still set and error is still null.
C25_WitnessError ==
    /\ lastConn.op = "onerror"
    /\ loading
    /\ error = NULL
    /\ ~CanDispatch

\* C26 (as claimed): once responses have been fetched, every stored response
\* belongs to the question whose responses were fetched last.
C26_ResponsesScopedToOneQuestion ==
    synced.responsesOf # 0
        => \A i \in DOMAIN responses :
              responses[i].question_id = synced.responsesOf

\* This step is the effect's cleanup (stop).
StopCalled == lastConn'.op = "cleanup" /\ effect' # effect

\* C27 (as claimed): stop called when no socket is referenced and no timer
\* is pending changes nothing of the connection manager, and stop called in
\* any state leaves no timer pending and no socket referenced.
C27_StopLeavesNothingPending ==
    [][StopCalled
          => /\ (wsRef = 0 /\ timers = {})
                  => UNCHANGED <<sockets, wsRef, isConnecting,
                                 reconnectTimeoutRef, timers>>
             /\ timers' = {}
             /\ wsRef' = 0]_vars

\* C28: fetchResponses.fulfilled leaves responses equal to the fetched
\* payload, element by element in the payload's order, whatever was stored
\* before, and leaves questions and selectedQuestion unchanged.
C28_FetchResponsesReplaces ==
    [][lastOp'.type = "questions/fetchResponses/fulfilled"
          => /\ Len(responses') = Len(lastOp'.payload)
             /\ \A i \in 1..Len(lastOp'.payload) : responses'[i] = lastOp'.payload[i]
             /\ UNCHANGED <<questions, selectedQuestion>>]_vars

\* C28 witness: a list of two responses, the one with the larger id first,
\* has replaced stored responses of which one is not in the list, in a
\* store with a question and a selection.
C28_Witness ==
    /\ lastOp.type = "questions/fetchResponses/fulfilled"
    /\ Len(lastOp.payload) = 2
    /\ lastOp.payload[1].response_id > lastOp.payload[2].response_id
    /\ lastOp.dropped
    /\ responses = lastOp.payload
    /\ questions # <<>>
    /\ selectedQuestion # NullQuestion

\* C29: a frame that parses to a message of a known type ends in a dispatch,
\* and the store afterwards is the store before with the one reducer of that
\* type applied once to the message's data: new_question adds one question,
\* question_updated adds none and touches no response, new_response appends
\* the one response; loading, error and the connection are untouched.
C29_RouterDispatchExact ==
    [][(/\ MessageStep
        /\ Last(received').text = "json"
        /\ Last(received').value.type \in KnownTypes)
          => LET m == Last(received').value IN
             /\ lastOp'.outcome = "dispatched"
             /\ StoreState_next = Applied(StoreState, m)
             /\ m.type = "new_question"
                  => /\ Len(questions') = Len(questions) + 1
                     /\ \E i \in DOMAIN questions' : questions'[i] = m.data
                     /\ UNCHANGED <<selectedQuestion, responses>>
             /\ m.type = "question_updated"
                  => /\ Len(questions') = Len(questions)
                     /\ UNCHANGED responses
             /\ m.type = "new_response"
                  => /\ responses' = Append(responses, m.data)
                     /\ Len(questions') = Len(questions)
                     /\ UNCHANGED selectedQuestion
             /\ UNCHANGED <<loading, error, connVars>>]_vars

\* C29 witness: a new_question for question 1 and then a question_updated
\* with another status for it have been handled: the collection holds the
\* updated question once.
C29_Witness ==
    /\ Len(received) = 2
    /\ received[1].text = "json"
    /\ received[1].value.type = "new_question"
    /\ lastOp.type = "ws/message"
    /\ lastOp.payload.text = "json"
    /\ lastOp.payload.value.type = "question_updated"
    /\ lastOp.payload.value.data.question_id = received[1].value.data.question_id
    /\ lastOp.payload.value.data.status # received[1].value.data.status
    /\ questions = <<lastOp.payload.value.data>>

\* C30 (as claimed): no two stored responses have the same response_id.
C30_ResponseIdsUnique ==
    \A i, j \in DOMAIN responses :
        i # j => responses[i].response_id # responses[j].response_id

\* C31: addResponse appends its payload as the last response and leaves the
\* questions as they were, position by position, except that the first
\* question with the payload's question_id has its response_count one
\* higher; selectedQuestion, loading and error are unchanged.
C31_AddResponseCountOnly ==
    [][lastOp'.type = "questions/addResponse"
          => LET d == lastOp'.payload
                 hit == WithId(questions, d.question_id)
             IN  /\ responses' = Append(responses, d)
                 /\ Len(questions') = Len(questions)
                 /\ \A i \in DOMAIN questions :
                       /\ questions'[i].question_id = questions[i].question_id
                       /\ questions'[i].status = questions[i].status
                       /\ questions'[i].created_at = questions[i].created_at
                       /\ questions'[i].response_count =
                             IF i \in hit /\ \A j \in hit : i <= j
                             THEN questions[i].response_count + 1
                             ELSE questions[i].response_count
                 /\ UNCHANGED <<selectedQuestion, loading, error>>]_vars

\* C31 witness: a response to the second of two questions that tie in the
\* sort has been appended after another response, with a question selected.
C31_Witness ==
    /\ lastOp.type = "questions/addResponse"
    /\ Len(questions) = 2
    /\ questions[1].status = questions[2].status
    /\ questions[2].question_id = lastOp.payload.question_id
    /\ questions[1].question_id # lastOp.payload.question_id
    /\ questions[2].response_count > 0
    /\ Len(responses) = 2
    /\ responses[2] = lastOp.payload
    /\ selectedQuestion # NullQuestion

\* Two questions tie in the sort: same status, same created_at.
Tie(a, b) == a.status = b.status /\ a.created_at = b.created_at

\* output holds the elements of input, and elements of input that tie are
\* in output in the order they have in input.
StableRearrangement(input, output) ==
    /\ Len(output) = Len(input)
    /\ \E f \in [DOMAIN input -> DOMAIN output] :
          /\ \A i, j \in DOMAIN input : i # j => f[i] # f[j]
          /\ \A i \in DOMAIN input : output[f[i]] = input[i]
          /\ \A i, j \in DOMAIN input :
                (i < j /\ Tie(input[i], input[j])) => f[i] < f[j]

\* The sequence a reducer hands to sortQuestions in this step.
SortInput ==
    LET d == lastOp'.payload IN
    CASE lastOp'.type = "questions/fetch/fulfilled" -> d
      [] lastOp'.type = "questions/addQuestion"     -> <<d>> \o questions
      [] lastOp'.type = "questions/updateQuestion"  ->
            [i \in DOMAIN questions |->
                IF i \in WithId(questions, d.question_id)
                   /\ \A j \in WithId(questions, d.question_id) : i <= j
                THEN d ELSE questions[i]]

\* C32: after fetchQuestions.fulfilled, addQuestion and updateQuestion the
\* questions are the sequence handed to the sort (the fetched list; the new
\* question followed by the old ones; the old ones with the updated one
\* replaced in place) with questions that tie kept in that sequence's order.
C32_SortIsStable ==
    [][lastOp'.type \in {"questions/fetch/fulfilled", "questions/addQuestion",
                         "questions/updateQuestion"}
          => StableRearrangement(SortInput, questions')]_vars

\* C32 witness: addQuestion of a question that ties with the one stored has
\* put the new question first.
C32_Witness ==
    /\ lastOp.type = "questions/addQuestion"
    /\ Len(questions) = 2
    /\ Tie(questions[1], questions[2])
    /\ questions[1] = lastOp.payload
    /\ questions[2].question_id # lastOp.payload.question_id

\* C32 witness, fetch: a fetched list of two questions that tie, the larger
\* id first, is stored in that order.
C32_WitnessFetch ==
    /\ lastOp.type = "questions/fetch/fulfilled"
    /\ Len(lastOp.payload) = 2
    /\ Tie(lastOp.payload[1], lastOp.payload[2])
    /\ lastOp.payload[1].question_id > lastOp.payload[2].question_id
    /\ questions = lastOp.payload

\* The question_ids a sequence of questions holds.
Ids(qs) == {qs[i].question_id : i \in DOMAIN qs}
\* s is the beginning of t.
IsPrefix(s, t) == Len(s) <= Len(t) /\ \A i \in DOMAIN s : t[i] = s[i]

\* C33: no action other than fetchQuestions.fulfilled removes a question_id
\* from questions or makes the questions fewer, no action other than
\* fetchResponses.fulfilled removes or moves a stored response, and
\* updateQuestion leaves the number of questions unchanged.
C33_NothingDeleted ==
    [][/\ lastOp'.type # "questions/fetch/fulfilled"
            => /\ Ids(questions) \subseteq Ids(questions')
               /\ Len(questions) <= Len(questions')
       /\ lastOp'.type # "questions/fetchResponses/fulfilled"
            => IsPrefix(responses, responses')
       /\ lastOp'.type = "questions/updateQuestion"
            => Len(questions') = Len(questions)]_vars

\* C33 witness: with two questions and two responses stored, a request has
\* been rejected.
C33_Witness ==
    /\ lastOp.type = "questions/updateStatus/rejected"
    /\ Len(questions) = 2
    /\ Len(responses) = 2
    /\ error # NULL

\* C33 witness, update: updateQuestion for a question_id the store does not
\* hold has left the one stored question in place.
C33_WitnessUpdate ==
    /\ lastOp.type = "questions/updateQuestion"
    /\ Len(questions) = 1
    /\ questions[1].question_id # lastOp.payload.question_id

\* C34 (as claimed): after a question_updated push for the question the
\* modal is open on, the question the modal holds is the store's entry for
\* that question_id.
C34_ModalQuestionFresh ==
    (modalQuestion # NullQuestion /\ lastOp.type = "questions/updateQuestion")
        => (lastOp.payload.question_id = modalQuestion.question_id
              => \A i \in WithId(questions, modalQuestion.question_id) :
                    questions[i] = modalQuestion)

\* C35 (as claimed): while a request is in flight, loading is true.
C35_LoadingCoversInFlight ==
    (\E r \in 1..MaxRequests : requests[r] # NoRequest) => loading


\* The last hook step called connect() and new WebSocket threw there.
ConstructorThrew ==
    /\ lastConn.op \in {"setup", "timer"}
    /\ lastConn.constructed
    /\ lastConn.scheduled

\* C36: a connect() whose new WebSocket threw leaves isConnecting false and
\* one timeout pending, the one reconnectTimeoutRef holds, which can fire;
\* when that timeout fires, connect() makes a new attempt.
C36_ConstructorThrowRecovers ==
    /\ [](ConstructorThrew
            => /\ ~isConnecting
               /\ Cardinality(timers) = 1
               /\ reconnectTimeoutRef \in timers
               /\ ENABLED TimerFire(reconnectTimeoutRef))
    /\ [][(ConstructorThrew /\ lastConn'.op = "timer")
            => /\ lastConn'.constructed
               /\ attempts < MaxAttempts => attempts' = attempts + 1]_vars

\* C36 witness: the setup's attempt threw, and the timeout it scheduled has
\* fired and made a second attempt, which threw again.
C36_Witness ==
    /\ ConstructorThrew
    /\ lastConn.op = "timer"
    /\ attempts = 2
    /\ ~isConnecting
    /\ Cardinality(timers) = 1


\* C37: in the auth slice user is null exactly when token is null; after
\* logout user, token and error are null; a rejected register or login
\* leaves user and token as they were.
C37_AuthCoherent ==
    /\ [](/\ auth.user = NullUser <=> auth.token = NULL
          /\ lastOp.type = "auth/logout"
                => auth.user = NullUser /\ auth.token = NULL /\ auth.error = NULL)
    /\ [][lastOp'.type \in {"auth/register/rejected", "auth/login/rejected"}
            => auth'.user = auth.user /\ auth'.token = auth.token]_vars

\* C37 witness: with a login restored from the storage, a login for another
\* account was rejected and the restored user and token are still there.
C37_Witness ==
    /\ lastOp.type = "auth/login/rejected"
    /\ auth.user = [username |-> "ann"]
    /\ auth.token = "t1"
    /\ auth.error = "Login failed"

\* C37 witness, login: a login has been fulfilled in a browser and the
\* storage holds the token the slice holds.
C37_WitnessRelogin ==
    /\ lastOp.type = "auth/login/fulfilled"
    /\ auth.user # NullUser
    /\ auth.token # NULL
    /\ localStorage # NoWindow
    /\ localStorage.token = auth.token

=============================================================================
